---- MODULE Spec2Model ----
(***************************************************************************)
(* RETRO-LABYRINTH: the deterministic maze generator (maze-generator.js),  *)
(* the PeerJS session transport (network-manager.js) and the round/pickup  *)
(* synchronisation protocol between host and guest (main.js).              *)
(*                                                                         *)
(* Three specifications share the variables of this module:                *)
(*   SpecMaze  the maze generator and its module-level RNG state           *)
(*   SpecNet   one NetworkManager against the PeerJS transport             *)
(*   Spec      two peers (host, guest) playing rounds over the channel     *)
(***************************************************************************)
EXTENDS Integers, Sequences, FiniteSets, TLC

(***************************************************************************)
(* 32-bit integer arithmetic of JavaScript.  A 32-bit word is the pair     *)
(* <<hi, lo>> of its 16-bit halves, so that every intermediate value stays *)
(* inside the integers of the model checker.                               *)
(***************************************************************************)
W16 == 2 ^ 16

\* bit p (a power of two) of a ^ b and of a | b
XorBit(a, b, p) == (((a \div p) + (b \div p)) % 2) * p
OrBit(a, b, p) == IF (a \div p) % 2 = 1 \/ (b \div p) % 2 = 1 THEN p ELSE 0

\* a ^ b and a | b on the low four bits
Xor4(a, b) == XorBit(a, b, 1) + XorBit(a, b, 2) + XorBit(a, b, 4) + XorBit(a, b, 8)
Or4(a, b) == OrBit(a, b, 1) + OrBit(a, b, 2) + OrBit(a, b, 4) + OrBit(a, b, 8)

\* byte-wise table of ^, evaluated once
XorTab ==
    [a \in 0..255 |->
        ([b \in 0..255 |-> Xor4(a, b) + 16 * Xor4(a \div 16, b \div 16)] @@ <<>>)] @@ <<>>

Xor16(a, b) ==
    XorTab[a \div 256][b \div 256] * 256 + XorTab[a % 256][b % 256]

\* a ^ b on 32-bit words
WXor(a, b) == <<Xor16(a[1], b[1]), Xor16(a[2], b[2])>>

\* c | a for a constant c < 2^8 (the code uses 1 | x and 61 | x)
WOrLow(c, a) ==
    <<a[1], (a[2] \div 256) * 256 + Or4(c, a[2]) + 16 * Or4(c \div 16, a[2] \div 16)>>

\* (a + b) | 0 : addition modulo 2^32
WAdd(a, b) ==
    LET lo == a[2] + b[2]
        hi == a[1] + b[1] + (lo \div W16)
    IN  <<hi % W16, lo % W16>>

\* a >>> n for 0 < n < 16
WShr(a, n) ==
    LET p == 2 ^ n
    IN  <<a[1] \div p, (a[1] % p) * (W16 \div p) + (a[2] \div p)>>

\* Math.imul(a, b): the low 32 bits of the product, by 8-bit limbs
WImul(a, b) ==
    LET a0 == a[2] % 256  a1 == a[2] \div 256
        a2 == a[1] % 256  a3 == a[1] \div 256
        b0 == b[2] % 256  b1 == b[2] \div 256
        b2 == b[1] % 256  b3 == b[1] \div 256
        c0 == a0 * b0
        c1 == a0 * b1 + a1 * b0
        c2 == a0 * b2 + a1 * b1 + a2 * b0
        c3 == a0 * b3 + a1 * b2 + a2 * b1 + a3 * b0
        k1 == (c0 \div 256) + c1
        k2 == (k1 \div 256) + c2
        k3 == (k2 \div 256) + c3
    IN  <<(k3 % 256) * 256 + (k2 % 256), (k1 % 256) * 256 + (c0 % 256)>>

\* the word of a seed in 0 .. 2^31-1 (ToInt32 keeps the bits)
WordOf(n) == <<n \div W16, n % W16>>

(***************************************************************************)
(* Mulberry32.  seededRandom returns u / 2^32 for a 32-bit unsigned u; the *)
(* model returns the word u and the new value of _seedState.               *)
(***************************************************************************)
\* let t = Math.imul(_seedState ^ (_seedState >>> 15), 1 | _seedState)
mulberryT1(s1) == WImul(WXor(s1, WShr(s1, 15)), WOrLow(1, s1))

\* t = (t + Math.imul(t ^ (t >>> 7), 61 | t)) ^ t
mulberryT2(t1) == WXor(WAdd(t1, WImul(WXor(t1, WShr(t1, 7)), WOrLow(61, t1))), t1)

\* (t ^ (t >>> 14)) >>> 0
mulberryWert(t2) == WXor(t2, WShr(t2, 14))

\* the statements of seededRandom after _seedState has become s1
seededRandomAb(s1) == [val |-> mulberryWert(mulberryT2(mulberryT1(s1))), st |-> s1]

\* _seedState = (_seedState + 0x6D2B79F5) | 0, then the rest
seededRandom(st) == seededRandomAb(WAdd(st, <<27947, 31221>>))

\* setSeed without its assignment: _seedState keeps its value
setSeedOhneZuweisung(alt, seed) == alt

\* setSeed(seed): _seedState = seed, as the value _seedState takes when it
\* was alt before
setSeed(alt, seed) == WordOf(seed)

\* Math.floor(u / 2^32 * k) for a small positive integer k (exact in doubles)
FloorMul(u, k) == (u[1] * k + ((u[2] * k) \div W16)) \div W16

\* u / 2^32 < 0.2 : the double 0.2 lies between 0x33333333 and 0x33333334
\* (both divided by 2^32)
UnterRate(u) == u[1] < 13107 \/ (u[1] = 13107 /\ u[2] <= 13107)


(***************************************************************************)
(* generateMaze (maze-generator.js).  JavaScript arrays are functions on   *)
(* 0 .. length-1; 1 = WALL (Wand), 0 = OPEN (Gang).                        *)
(***************************************************************************)
WAND == 1
GANG == 0

\* a JavaScript array of n elements, all v (f @@ <<>> is f, kept by the model
\* checker as an explicit function)
JsArray(n, v) == [i \in 0..(n - 1) |-> v] @@ <<>>

\* arr[i] = v on a JavaScript array: an assignment at index length extends it
JsSet(arr, i, v) ==
    IF i \in DOMAIN arr THEN [arr EXCEPT ![i] = v]
    ELSE [k \in 0..i |-> IF k = i THEN v ELSE arr[k]] @@ <<>>

\* const richtungen = [oben, rechts, unten, links]
richtungen ==
    (0 :> [dx |-> 0, dy |-> -1]) @@ (1 :> [dx |-> 1, dy |-> 0])
    @@ (2 :> [dx |-> 0, dy |-> 1]) @@ (3 :> [dx |-> -1, dy |-> 0])

\* [arr[i], arr[j]] = [arr[j], arr[i]]
tauschen(arr, i, j) == [arr EXCEPT ![i] = arr[j], ![j] = arr[i]]

\* mischen(arr): Fisher-Yates, for (i = arr.length - 1; i > 0; i--); the
\* iteration at index i, r being what its call of seededRandom gave
RECURSIVE mischen(_, _, _)
mischenZug(arr, i, r) == mischen(tauschen(arr, i, FloorMul(r.val, i + 1)), i - 1, r.st)

mischen(arr, i, st) ==
    IF i <= 0 THEN [arr |-> arr, st |-> st]
    ELSE mischenZug(arr, i, seededRandom(st))

\* graben(zx, zy) is recursive in the code.  The model runs it on an explicit
\* call stack: M.lab, M.bes and M.st are labyrinth, besucht and _seedState, and
\* a frame [zx, zy, gemischt, k] is one activation of graben whose for-loop is
\* at index k of its shuffled directions.  M.fehler is set once a TypeError
\* was thrown; nothing runs after it.
\* The first statements of graben(zx, zy): mark the cell, open grid cell
\* [gy][gx], and start the loop over the shuffled directions m
grabenEintritt(M, zx, zy, gy, gx, m) ==
    [lab |-> JsSet(M.lab, gy, JsSet(M.lab[gy], gx, GANG)),
     bes |-> JsSet(M.bes, zy, JsSet(M.bes[zy], zx, TRUE)),
     st |-> m.st, fehler |-> FALSE,
     stack |-> Append(M.stack, [zx |-> zx, zy |-> zy, gemischt |-> m.arr, k |-> 0])]

\* graben's entry opening the grid cell [2*zy][2*zx] in place of
\* [2*zy+1][2*zx+1]
grabenBetretenVersetzt(M, zx, zy) ==
    IF M.fehler THEN M
    ELSE IF zy \notin DOMAIN M.bes \/ (2 * zy) \notin DOMAIN M.lab
    THEN [M EXCEPT !.fehler = TRUE]
    ELSE grabenEintritt(M, zx, zy, 2 * zy, 2 * zx, mischen(richtungen, 3, M.st))

\* Entry of graben(zx, zy).  besucht[zy][zx] = true throws when besucht[zy]
\* is undefined, and labyrinth[2*zy+1][2*zx+1] = 0 throws when that row is
\* undefined.
grabenBetreten(M, zx, zy) ==
    IF M.fehler THEN M
    ELSE IF zy \notin DOMAIN M.bes \/ (2 * zy + 1) \notin DOMAIN M.lab
    THEN [M EXCEPT !.fehler = TRUE]
    ELSE grabenEintritt(M, zx, zy, 2 * zy + 1, 2 * zx + 1, mischen(richtungen, 3, M.st))

\* graben's step entering the neighbour without opening the wall between
grabenSchrittOhneDurchgang(M, breite, hoehe) ==
    IF M.fehler \/ M.stack = <<>> THEN M
    ELSE LET n == Len(M.stack)
             f == M.stack[n]
         IN  IF f.k > 3 THEN [M EXCEPT !.stack = SubSeq(M.stack, 1, n - 1)]
             ELSE LET richtung == f.gemischt[f.k]
                      nx == f.zx + richtung.dx
                      ny == f.zy + richtung.dy
                      M1 == [M EXCEPT !.stack[n].k = f.k + 1]
                  IN  IF nx >= 0 /\ nx < breite /\ ny >= 0 /\ ny < hoehe /\ ~M.bes[ny][nx]
                      THEN grabenBetreten(M1, nx, ny)
                      ELSE M1

\* One step of the innermost activation: return when its loop is over, else
\* look at the next direction and recurse into an unvisited neighbour in bounds.
grabenSchritt(M, breite, hoehe) ==
    IF M.fehler \/ M.stack = <<>> THEN M
    ELSE LET n == Len(M.stack)
             f == M.stack[n]
         IN  IF f.k > 3 THEN [M EXCEPT !.stack = SubSeq(M.stack, 1, n - 1)]
             ELSE LET richtung == f.gemischt[f.k]
                      nx == f.zx + richtung.dx
                      ny == f.zy + richtung.dy
                      M1 == [M EXCEPT !.stack[n].k = f.k + 1]
                  IN  IF nx >= 0 /\ nx < breite /\ ny >= 0 /\ ny < hoehe /\ ~M.bes[ny][nx]
                      THEN LET wy == 2 * f.zy + 1 + richtung.dy
                               wx == 2 * f.zx + 1 + richtung.dx
                           IN  grabenBetreten(
                                   [M1 EXCEPT !.lab = JsSet(M.lab, wy, JsSet(M.lab[wy], wx, GANG))],
                                   nx, ny)
                      ELSE M1

\* n steps of the carving, halving n to keep the evaluation shallow
RECURSIVE grabenLauf(_, _, _, _)
grabenLauf(M, breite, hoehe, n) ==
    IF M.fehler \/ M.stack = <<>> \/ n = 0 THEN M
    ELSE IF n = 1 THEN grabenSchritt(M, breite, hoehe)
    ELSE grabenLauf(grabenLauf(M, breite, hoehe, n \div 2), breite, hoehe, n - (n \div 2))

\* graben(zx, zy) run to its return: every activation takes 4 loop steps and
\* one return, and there is at most one activation per cell
graben(S, breite, hoehe, zx, zy) ==
    grabenLauf(grabenBetreten([lab |-> S.lab, bes |-> S.bes, st |-> S.st,
                               fehler |-> FALSE, stack |-> <<>>], zx, zy),
               breite, hoehe, 5 * (breite * hoehe + 1))

\* the number of OPEN orthogonal neighbours counted for cell (y, x), each
\* read guarded by its bounds test as in the code (nachbarGaenge)
nachbarGaenge(lab, rasterBreite, rasterHoehe, y, x) ==
    (IF y > 0 /\ lab[y - 1][x] = GANG THEN 1 ELSE 0)
    + (IF y < rasterHoehe - 1 /\ lab[y + 1][x] = GANG THEN 1 ELSE 0)
    + (IF x > 0 /\ lab[y][x - 1] = GANG THEN 1 ELSE 0)
    + (IF x < rasterBreite - 1 /\ lab[y][x + 1] = GANG THEN 1 ELSE 0)

\* the body of the Extra-Durchbrueche loops at a WALL cell (y, x), r being
\* what its call of seededRandom gave
durchbruchZug(S, rasterBreite, rasterHoehe, y, x, r) ==
    IF UnterRate(r.val) /\ nachbarGaenge(S.lab, rasterBreite, rasterHoehe, y, x) >= 2
    THEN [S EXCEPT !.lab = JsSet(S.lab, y, JsSet(S.lab[y], x, GANG)), !.st = r.st]
    ELSE [S EXCEPT !.st = r.st]

\* one iteration of the Extra-Durchbrueche loops with seededRandom() called
\* before the test of the cell
durchbruchSchrittImmerZug(S, rasterBreite, rasterHoehe, y, x) ==
    IF S.lab[y][x] = WAND
    THEN durchbruchZug(S, rasterBreite, rasterHoehe, y, x, seededRandom(S.st))
    ELSE [S EXCEPT !.st = seededRandom(S.st).st]

\* one iteration of the Extra-Durchbrueche loops at cell (y, x): the RNG is
\* drawn only when the cell is WALL (&& short-circuits)
durchbruchSchritt(S, rasterBreite, rasterHoehe, y, x) ==
    IF S.lab[y][x] = WAND
    THEN durchbruchZug(S, rasterBreite, rasterHoehe, y, x, seededRandom(S.st))
    ELSE S

\* for (y = 1; y < rasterHoehe - 1; y++) for (x = 1; x < rasterBreite - 1; x++):
\* the interior cells in row-major order, cell number i being
\* (1 + i \div (rasterBreite - 2), 1 + i % (rasterBreite - 2));
\* the cells i with von <= i < bis, halving the range
RECURSIVE durchbrueche(_, _, _, _, _)
durchbrueche(S, rasterBreite, rasterHoehe, von, bis) ==
    IF S.fehler \/ bis <= von THEN S
    ELSE IF bis = von + 1
         THEN durchbruchSchritt(S, rasterBreite, rasterHoehe, 1 + (von \div (rasterBreite - 2)),
                                   1 + (von % (rasterBreite - 2)))
         ELSE LET mitte == (von + bis) \div 2
              IN  durchbrueche(durchbrueche(S, rasterBreite, rasterHoehe, von, mitte),
                               rasterBreite, rasterHoehe, mitte, bis)

\* the number of interior cells the two loops visit
InnenZellen(rasterBreite, rasterHoehe) ==
    IF rasterBreite < 3 \/ rasterHoehe < 3 THEN 0
    ELSE (rasterBreite - 2) * (rasterHoehe - 2)

\* what generateMaze returns after the loops have left D: the grid (lab;
\* none, <<>>, when the call threw), the value _seedState is left with (st),
\* and whether the call threw (fehler)
labyrinthErgebnis(D) ==
    [fehler |-> D.fehler, lab |-> IF D.fehler THEN <<>> ELSE D.lab, st |-> D.st]

\* the body of generateMaze from its first statement to the return of
\* graben(0, 0), _seedState being st0: the grid as the depth-first carving
\* leaves it
gegraben(st0, breite, hoehe) ==
    graben([lab |-> JsArray(2 * hoehe + 1, JsArray(2 * breite + 1, WAND)),
            bes |-> JsArray(hoehe, JsArray(breite, FALSE)),
            st |-> st0],
           breite, hoehe, 0, 0)

\* the body of generateMaze after its first statement, _seedState being st0
labyrinthAus(st0, breite, hoehe) ==
    labyrinthErgebnis(
        durchbrueche(gegraben(st0, breite, hoehe),
                     2 * breite + 1, 2 * hoehe + 1, 0,
                     InnenZellen(2 * breite + 1, 2 * hoehe + 1)))

\* sizes and seeds the calls are made with
MaxBreite == 3
MaxHoehe == 3
MazeSeeds == {0, 2147483646}

\* the arguments the calls are made with
MazeArgs == {<<WordOf(s), b, h>> : s \in MazeSeeds, b \in 0..MaxBreite, h \in 0..MaxHoehe}

\* labyrinthAus tabulated, once, for these arguments
MazeTabelle == [a \in MazeArgs |-> labyrinthAus(a[1], a[2], a[3])] @@ <<>>

\* a call <<breite, hoehe, seed>> in which the Extra-Durchbrueche loops open a
\* wall that has 2 OPEN neighbours only because the loops opened one of them
\* before, and labyrinthAus tabulated for it
DurchbruchAufrufe == {<<4, 4, 21>>}
DurchbruchArgs == {<<WordOf(a[3]), a[1], a[2]>> : a \in DurchbruchAufrufe}
DurchbruchTabelle == [a \in DurchbruchArgs |-> labyrinthAus(a[1], a[2], a[3])] @@ <<>>

\* main.js: the size of the maze of a round, the seeds
\* generiereZufallsSeed() returns in the model (it returns any integer of
\* 0 .. 2147483646), and labyrinthAus tabulated, once, for the rounds
LABYRINTH_BREITE == 8
LABYRINTH_HOEHE == 8
SpielSeeds == {0, 2147483646}
SpielArgs == {<<WordOf(s), LABYRINTH_BREITE, LABYRINTH_HOEHE>> : s \in SpielSeeds}
SpielTabelle == [a \in SpielArgs |-> labyrinthAus(a[1], a[2], a[3])] @@ <<>>

\* generateMaze(breite, hoehe, seed), called when _seedState is alt: setSeed,
\* then the body (read from a table where a table has it)
generateMaze(alt, breite, hoehe, seed) ==
    LET st0 == setSeed(alt, seed)
    IN  IF <<st0, breite, hoehe>> \in MazeArgs THEN MazeTabelle[<<st0, breite, hoehe>>]
        ELSE IF <<st0, breite, hoehe>> \in DurchbruchArgs
        THEN DurchbruchTabelle[<<st0, breite, hoehe>>]
        ELSE IF <<st0, breite, hoehe>> \in SpielArgs THEN SpielTabelle[<<st0, breite, hoehe>>]
        ELSE labyrinthAus(st0, breite, hoehe)

(***************************************************************************)
(* The pickups of a round (main.js, with findeFreiePosition of             *)
(* maze-generator.js).  A position is [x, z] in world units.               *)
(***************************************************************************)
WAND_GROESSE == 2

\* combat.js: the health a player starts a round with, the damage of a
\* headshot and of a mine
MAX_LEBEN == 100
SCHADEN_KOPF == 30
SCHADEN_MINE == 50

\* const anzahl = 8 of spawnInitialPickups
anzahl == 8

\* (random * 16807) % 2147483647 of spawnInitialPickups, by Schrage's
\* decomposition 2147483647 = 16807 * 127773 + 2836 so that no product
\* leaves 32 bits (the JavaScript product is below 2^53 and exact)
pickupRandom(random) ==
    IF 16807 * (random % 127773) >= 2836 * (random \div 127773)
    THEN 16807 * (random % 127773) - 2836 * (random \div 127773)
    ELSE 16807 * (random % 127773) - 2836 * (random \div 127773) + 2147483647

\* <<q, r>> with a * n = q * m + r and 0 <= r < m, for 0 <= a < m and
\* n >= 0, by doubling
verdoppelt(h, m) ==
    IF h[2] >= m - h[2] THEN <<2 * h[1] + 1, h[2] - (m - h[2])>> ELSE <<2 * h[1], 2 * h[2]>>
dazu(h, a, m) ==
    IF h[2] >= m - a THEN <<h[1] + 1, h[2] - (m - a)>> ELSE <<h[1], h[2] + a>>
RECURSIVE malGeteilt(_, _, _)
malGeteilt(a, n, m) ==
    IF n = 0 THEN <<0, 0>>
    ELSE IF n % 2 = 1 THEN dazu(verdoppelt(malGeteilt(a, n \div 2, m), m), a, m)
    ELSE verdoppelt(malGeteilt(a, n \div 2, m), m)

\* Math.floor(randomFunc() * LABYRINTH_BREITE * LABYRINTH_HOEHE) where
\* randomFunc() returned (random - 1) / 2147483646.  For random >= 1 the
\* double product is within 2^-50 of the exact quotient, which lies at least
\* 2^-37 away from the next integer unless it is one, so the floor is the
\* exact one; for random = 0 the value is -64 / 2147483646 and its floor -1
randIdx(random) ==
    IF random = 0 THEN -1
    ELSE malGeteilt(random - 1, LABYRINTH_BREITE * LABYRINTH_HOEHE, 2147483646)[1]

\* the cells of row y that are OPEN, left to right, as positions
RECURSIVE freieInZeile(_, _, _)
freieInZeile(zeile, y, x) ==
    IF x \notin DOMAIN zeile THEN <<>>
    ELSE IF zeile[x] = GANG
    THEN <<[x |-> x * WAND_GROESSE, z |-> y * WAND_GROESSE]>> \o freieInZeile(zeile, y, x + 1)
    ELSE freieInZeile(zeile, y, x + 1)

\* const freiePositionen of findeFreiePosition: row by row
RECURSIVE freiePositionen(_, _)
freiePositionen(labyrinth, y) ==
    IF y \notin DOMAIN labyrinth THEN <<>>
    ELSE freieInZeile(labyrinth[y], y, 0) \o freiePositionen(labyrinth, y + 1)

\* the return statements of findeFreiePosition with an index past the end
\* held at the last entry in place of wrapping around
auswahlOhneUmlauf(frei, index, zufall) ==
    IF Len(frei) = 0 THEN "undefined"
    ELSE IF index >= 0 THEN (IF index < Len(frei) THEN frei[index + 1] ELSE frei[Len(frei)])
    ELSE frei[((zufall * Len(frei)) \div 8) + 1]

\* the two return statements of findeFreiePosition: zufall is the outcome of
\* Math.random() in eighths, "undefined" an index that is NaN
auswahl(frei, index, zufall) ==
    IF Len(frei) = 0 THEN "undefined"
    ELSE IF index >= 0 THEN frei[(index % Len(frei)) + 1]
    ELSE frei[((zufall * Len(frei)) \div 8) + 1]

\* the streams Math.random() yields in the model, in eighths, one value for
\* each call of a round
MathRandomFolgen == {[i \in 1..anzahl |-> i - 1], [i \in 1..anzahl |-> anzahl - i]}

\* the open cells of the grids of the rounds and of the grids of MazeArgs,
\* tabulated once
FreiTabelle == [a \in SpielArgs |-> freiePositionen(SpielTabelle[a].lab, 0)] @@ <<>>
MazeFreiTabelle == [a \in MazeArgs |-> freiePositionen(MazeTabelle[a].lab, 0)] @@ <<>>

\* const freiePositionen of findeFreiePosition(labyrinth, ...) when its loops
\* are done (read from a table where a table has it)
freieVon(labyrinth) ==
    IF \E a \in SpielArgs : SpielTabelle[a].lab = labyrinth
    THEN FreiTabelle[CHOOSE a \in SpielArgs : SpielTabelle[a].lab = labyrinth]
    ELSE IF \E a \in MazeArgs : MazeTabelle[a].lab = labyrinth
    THEN MazeFreiTabelle[CHOOSE a \in MazeArgs : MazeTabelle[a].lab = labyrinth]
    ELSE freiePositionen(labyrinth, 0)

\* findeFreiePosition(labyrinth, index)
findeFreiePosition(labyrinth, index, zufall) ==
    auswahl(freieVon(labyrinth), index, zufall)

\* world coordinates are counted in 1 / Teile of a unit
Teile == 4

\* labyrinth.length, labyrinth[0].length
laenge(arr) == Cardinality(DOMAIN arr)

\* Math.floor(welt / WAND_GROESSE), the index without rounding to nearest
abgerundet(welt) == welt \div (Teile * WAND_GROESSE)

\* Math.floor(welt / WAND_GROESSE + 0.5)
rasterIndex(welt) == (welt + (Teile * WAND_GROESSE) \div 2) \div (Teile * WAND_GROESSE)

\* istWand(labyrinth, weltX, weltZ); a cell a row does not have is
\* undefined, and undefined === 1 is false
istWand(labyrinth, weltX, weltZ) ==
    LET rasterX == rasterIndex(weltX)
        rasterZ == rasterIndex(weltZ)
    IN  IF \/ rasterZ < 0 \/ rasterZ >= laenge(labyrinth)
           \/ rasterX < 0 \/ rasterX >= laenge(labyrinth[0])
        THEN TRUE
        ELSE rasterX \in DOMAIN labyrinth[rasterZ] /\ labyrinth[rasterZ][rasterX] = WAND

\* the type and the id spawnInitialPickups gives pickup i
typVon(i) == IF i = 7 THEN "MINE" ELSE IF i = 5 \/ i = 6 THEN "HEALTH" ELSE "AMMO"
Ziffern == <<"0", "1", "2", "3", "4", "5", "6", "7", "8", "9">>
pickupInitId(i) == "pickup_init_" \o Ziffern[i + 1]

\* spawnEinzelnesPickup(typ, randomFunc, vorgabeId, false), wert being
\* Math.floor(randomFunc() * LABYRINTH_BREITE * LABYRINTH_HOEHE)
spawnEinzelnesPickup(pickups, labyrinth, typ, wert, vorgabeId, zufall) ==
    Append(pickups, [id |-> vorgabeId, typ |-> typ,
                     pos |-> findeFreiePosition(labyrinth, wert, zufall)])

\* the loop of spawnInitialPickups from iteration i on, random being the
\* state of its generator
RECURSIVE spawnInitialPickupsAb(_, _, _, _, _)
spawnInitialSchritt(pickups, labyrinth, random, i, zufall) ==
    spawnInitialPickupsAb(
        spawnEinzelnesPickup(pickups, labyrinth, typVon(i), randIdx(random),
                             pickupInitId(i), zufall[i + 1]),
        labyrinth, random, i + 1, zufall)
spawnInitialPickupsAb(pickups, labyrinth, random, i, zufall) ==
    IF i >= anzahl THEN pickups
    ELSE spawnInitialSchritt(pickups, labyrinth, pickupRandom(random), i, zufall)

\* spawnInitialPickups(seed) on the pickup list pickups
spawnInitialPickups(pickups, labyrinth, seed, zufall) ==
    spawnInitialPickupsAb(pickups, labyrinth, seed, 0, zufall)

(***************************************************************************)
(* State.  Three specifications share the variables: SpecMaze runs the     *)
(* maze module alone, SpecNet one NetworkManager against the PeerJS        *)
(* transport, Spec two peers playing rounds.                               *)
(***************************************************************************)
VARIABLES
    seedState,   \* maze-generator.js: let _seedState
    mzLetzter,   \* <<>> or <<c>>, c the most recent generateMaze call: its
                 \* arguments, whether _seedState had been used before it
                 \* (benutzt), and what it returned
    mzZuege,     \* calls of seededRandom made by other code since then
    mzAbfrage    \* <<>> or <<q>>, q the most recent call of findeFreiePosition
                 \* or of istWand on the grid of mzLetzter: its arguments
                 \* and what it returned

mazeVars == <<seedState, mzLetzter, mzZuege, mzAbfrage>>

VARIABLES
    nm,             \* the fields of the NetworkManager
    nmVersprechen,  \* the promises erstelleRaum / treteRaumBei have returned
    nmAufruf,       \* the last method called on the manager, and how it ended
    pjPeers,        \* the Peer objects created, with the transport's view
    pjConns,        \* the DataConnection objects handed to the manager
    pjGesendet,     \* the messages given to an open channel, in order
    netzFremd       \* the addresses other hosts are listening on

netVars == <<nm, nmVersprechen, nmAufruf, pjPeers, pjConns, pjGesendet, netzFremd>>

VARIABLES
    spiel,      \* main.js: the globals of the page, for each peer
    netzwerk,   \* for each peer: fields of its NetworkManager, the handlers
                \* the page has registered, and the setTimeout that starts
                \* its first round (startTimer: <<>> or <<seed>>)
    kanal,      \* for each peer: the messages sent to it and not yet
                \* delivered, in order
    spAufruf,   \* the handler that ran last, and what it met
    spStart,    \* for each peer: <<>> or the seed and the pickup list of
                \* its last starteSpielMitSeed
    spRennen    \* <<>> or the first double collection: its id and the peers
                \* the other's pickup_collected has not reached yet

spielVars == <<spiel, netzwerk, kanal, spAufruf, spStart, spRennen>>

VARIABLES
    gegnerMesh,   \* main.js: let gegnerMesh of each peer: whether it exists
                  \* (vorhanden), its visible flag and its position <<x, z>>
                  \* in 1 / Teile3 of a unit
    aktiveMinen,  \* main.js: let aktiveMinen of each peer: { id, pos, ownerId },
                  \* pos being <<x, z>> in 1 / Teile of a unit
    minenSchaden, \* the calls empfangeSchaden(SCHADEN_MINE) of each peer
    stromZahl     \* what has been sent so far of the messages that are
                  \* capped (mines are counted for each peer), and the
                  \* messages each peer has dropped (verworfen)

stromVars == <<gegnerMesh, aktiveMinen, minenSchaden, stromZahl>>

vars == <<mazeVars, netVars, spielVars, stromVars>>

(***************************************************************************)
(* The maze module as a state machine                                      *)
(***************************************************************************)
\* cap on the other draws from the shared RNG between two calls
MaxZuege == 2

\* the two peers of a game, and the addresses other hosts hold at the broker
Peers == {"host", "gast"}
FremdeAdressen == {"retrolabyrinth_AAAA"}

\* the state after the modules are loaded and the NetworkManager is
\* constructed: let _seedState = 0, the constructor's fields, the globals
\* of main.js, and what the other hosts of the broker hold
Init ==
    /\ seedState = WordOf(0)
    /\ mzLetzter = <<>>
    /\ mzZuege = 0
    /\ mzAbfrage = <<>>
    /\ nm = [peer |-> 0, verbindung |-> 0, verbunden |-> FALSE, istHost |-> FALSE,
             raumCode |-> <<>>, spielerId |-> "",
             positionsTimer |-> FALSE, intervalle |-> 0, letztePosition |-> <<>>,
             status |-> [text |-> "", online |-> FALSE]]
    /\ nmVersprechen = <<>>
    /\ nmAufruf = [name |-> "constructor", offen |-> FALSE, geworfen |-> FALSE, ort |-> <<>>]
    /\ pjPeers = <<>>
    /\ pjConns = <<>>
    /\ pjGesendet = <<>>
    /\ netzFremd = FremdeAdressen
    /\ spiel = [p \in Peers |->
                   [labyrinth |-> <<>>, spielGestartet |-> FALSE, spielSeed |-> 0,
                    rundeAktiv |-> TRUE, pickups |-> <<>>, neustartTimer |-> 0,
                    leben |-> MAX_LEBEN, intervalle |-> 0,
                    spawnPos |-> [x |-> 0, z |-> 0],
                    gegnerMinenInventar |-> 0, eigenePunkte |-> 0, gegnerPunkte |-> 0]]
    /\ netzwerk = [p \in Peers |->
                      [istHost |-> FALSE, verbunden |-> FALSE, beigetreten |-> FALSE,
                       onSpielerVerbunden |-> FALSE, onSeedEmpfangen |-> "",
                       rueckrufe |-> FALSE, startTimer |-> <<>>]]
    /\ kanal = [p \in Peers |-> <<>>]
    /\ spAufruf = [peer |-> "", name |-> "", id |-> "", gefunden |-> FALSE,
                   baut |-> FALSE, geworfen |-> FALSE]
    /\ spStart = [p \in Peers |-> <<>>]
    /\ spRennen = <<>>
    /\ gegnerMesh = [p \in Peers |-> [vorhanden |-> FALSE, visible |-> FALSE,
                                      position |-> <<0, 0>>]]
    /\ aktiveMinen = [p \in Peers |-> <<>>]
    /\ minenSchaden = [p \in Peers |-> 0]
    /\ stromZahl = [position |-> 0, pickup |-> 0, mine |-> [p \in Peers |-> 0],
                    unbekannt |-> 0, verworfen |-> [p \in Peers |-> 0],
                    treffer |-> [p \in Peers |-> 0]]

\* a call generateMaze(b, h, s)
MazeGenerate(b, h, s) ==
    \E r \in {generateMaze(seedState, b, h, s)} :
        /\ seedState' = r.st
        /\ mzLetzter' = <<[breite |-> b, hoehe |-> h, seed |-> s,
                           benutzt |-> (seedState # WordOf(0)),
                           fehler |-> r.fehler, lab |-> r.lab]>>
        /\ mzZuege' = 0
        /\ mzAbfrage' = <<>>
        /\ UNCHANGED <<netVars, spielVars, stromVars>>

\* one call of seededRandom() by other code of the module (buildMazeGeometry,
\* the material pools): the value goes to rendering, the state advances
MazeSeededRandom ==
    /\ mzZuege < MaxZuege
    /\ seedState' = seededRandom(seedState).st
    /\ mzZuege' = mzZuege + 1
    /\ UNCHANGED <<mzLetzter, mzAbfrage>>
    /\ UNCHANGED <<netVars, spielVars, stromVars>>

\* the indexes, the multiples of the number of open cells and the outcomes
\* of Math.random() (in eighths) the calls of findeFreiePosition are made with
MaxIndex == 2
MaxVielfache == 2
MathRandomWerte == {0, 7}

\* the calls findeFreiePosition(labyrinth, index) and
\* findeFreiePosition(labyrinth, index + k * N) on the returned grid, N being
\* the number of its open cells
MazeFindeFreiePosition(index, k, zufall1, zufall2) ==
    /\ mzLetzter # <<>> /\ ~mzLetzter[1].fehler
    /\ \E N \in {Len(freieVon(mzLetzter[1].lab))} :
          mzAbfrage' = <<[art |-> "findeFreiePosition", index |-> index, k |-> k, N |-> N,
                          erste |-> findeFreiePosition(mzLetzter[1].lab, index, zufall1),
                          zweite |-> findeFreiePosition(mzLetzter[1].lab,
                                                        index + k * N, zufall2)]>>
    /\ UNCHANGED <<seedState, mzLetzter, mzZuege>>
    /\ UNCHANGED <<netVars, spielVars, stromVars>>

\* the world coordinates the calls of istWand are made with: for the grid
\* indexes -1, 0, 1, 2 and the last one of the widest grid and the one past
\* it, the least and the greatest coordinate that rounds to the index
WeltKoordinaten ==
    {Teile * WAND_GROESSE * i + d :
        i \in {-1, 0, 1, 2, 2 * MaxBreite, 2 * MaxBreite + 1},
        d \in {-((Teile * WAND_GROESSE) \div 2), (Teile * WAND_GROESSE) \div 2 - 1}}

\* the points the calls are made with: each axis swept while the other
\* coordinate rounds to index 1, and the points with equal coordinates
WeltPunkte ==
    {<<w, (Teile * WAND_GROESSE) \div 2>> : w \in WeltKoordinaten}
    \cup {<<(Teile * WAND_GROESSE) \div 2, w>> : w \in WeltKoordinaten}
    \cup {<<w, w>> : w \in WeltKoordinaten}

\* a call istWand(labyrinth, weltX, weltZ) on the returned grid
MazeIstWand(weltX, weltZ) ==
    /\ mzLetzter # <<>> /\ ~mzLetzter[1].fehler
    /\ mzAbfrage' = <<[art |-> "istWand", weltX |-> weltX, weltZ |-> weltZ,
                       ergebnis |-> istWand(mzLetzter[1].lab, weltX, weltZ)]>>
    /\ UNCHANGED <<seedState, mzLetzter, mzZuege>>
    /\ UNCHANGED <<netVars, spielVars, stromVars>>

NextMaze ==
    \/ \E b \in 0..MaxBreite, h \in 0..MaxHoehe, s \in MazeSeeds : MazeGenerate(b, h, s)
    \/ \E a \in DurchbruchAufrufe : MazeGenerate(a[1], a[2], a[3])
    \/ MazeSeededRandom
    \/ \E index \in -1..MaxIndex, k \in -MaxVielfache..MaxVielfache,
          zufall1 \in MathRandomWerte, zufall2 \in MathRandomWerte :
           MazeFindeFreiePosition(index, k, zufall1, zufall2)
    \/ \E punkt \in WeltPunkte : MazeIstWand(punkt[1], punkt[2])

(***************************************************************************)
(* NetworkManager (network-manager.js) against the PeerJS transport.       *)
(* A room code is the sequence of its letters; an address is a string.     *)
(***************************************************************************)
CODE_LAENGE == 4

\* const buchstaben = 'ABCDEFGHJKLMNPQRSTUVWXYZ'
buchstaben ==
    <<"A", "B", "C", "D", "E", "F", "G", "H", "J", "K", "L", "M",
      "N", "P", "Q", "R", "S", "T", "U", "V", "W", "X", "Y", "Z">>

\* _generiereCode(), z[i] being Math.floor(Math.random() * buchstaben.length)
\* of iteration i
generiereCode(z) == [i \in 1..CODE_LAENGE |-> buchstaben[z[i] + 1]]

\* the string of a sequence of letters
RECURSIVE Text(_)
Text(code) == IF code = <<>> THEN "" ELSE Head(code) \o Text(Tail(code))

\* 'retrolabyrinth_' + this.raumCode
peerIdVon(code) == "retrolabyrinth_" \o Text(code)

\* String.prototype.toUpperCase on the letters the join dialog is given
Gross(ch) ==
    CASE ch = "a" -> "A"
      [] ch = "z" -> "Z"
      [] OTHER -> ch
toUpperCase(code) == [i \in DOMAIN code |-> Gross(code[i])]

\* the outcomes of Math.floor(Math.random() * 24) the model draws, the room
\* codes typed into the join dialog, the addresses other hosts may hold,
\* and the error types the transport reports besides the two the code names
ZufallsIndizes == {0, 23}
ZufallsFolgen == [1..CODE_LAENGE -> ZufallsIndizes]
EingabeCodes == {<<"a", "a", "a", "a">>, <<"A", "A", "A", "Z">>}
FehlerTypen == {"network"}
NachrichtenTypen == {"seed"}

\* caps: Peer objects created, connections handed over, messages sent
MaxPeers == 3
MaxConns == 1
MaxNachrichten == 1

\* _setzeStatus(text, online)
setzeStatus(n, text, online) == [n EXCEPT !.status = [text |-> text, online |-> online]]

\* resolve(wert) / reject(err) of promise k: a settled promise stays as it
\* is; erstelleRaum().then(resolve).catch(reject) passes the outcome of an
\* inner promise on to the promise V[k].aussen
RECURSIVE erledige(_, _, _, _)
erledige(V, k, zustand, wert) ==
    IF k = 0 THEN V
    ELSE IF V[k].zustand # "pending" THEN V
    ELSE erledige([V EXCEPT ![k] = [zustand |-> zustand, wert |-> wert, aussen |-> V[k].aussen]],
                  V[k].aussen, zustand, wert)

\* erstelleRaum deriving the address from the room code the manager held
\* before this call drew its own
erstelleRaumAbAlterCode(n, peers, code, aussen) ==
    /\ nm' = setzeStatus([n EXCEPT !.istHost = TRUE, !.raumCode = code,
                                   !.peer = Len(peers) + 1],
                         "ERSTELLE RAUM...", FALSE)
    /\ pjPeers' = Append(peers, [id |-> peerIdVon(n.raumCode), ziel |-> "", art |-> "host",
                                 zustand |-> "neu", versprechen |-> Len(nmVersprechen) + 1])
    /\ nmVersprechen' = Append(nmVersprechen,
                               [zustand |-> "pending", wert |-> <<>>, aussen |-> aussen])

\* the executor of erstelleRaum's promise up to the registration of the
\* handlers: n and peers are the manager and the Peer objects as they are,
\* code is what _generiereCode returns, aussen the promise the new one
\* reports to (0: none)
erstelleRaumAb(n, peers, code, aussen) ==
    /\ nm' = setzeStatus([n EXCEPT !.istHost = TRUE, !.raumCode = code,
                                   !.peer = Len(peers) + 1],
                         "ERSTELLE RAUM...", FALSE)
    /\ pjPeers' = Append(peers, [id |-> peerIdVon(code), ziel |-> "", art |-> "host",
                                 zustand |-> "neu", versprechen |-> Len(nmVersprechen) + 1])
    /\ nmVersprechen' = Append(nmVersprechen,
                               [zustand |-> "pending", wert |-> <<>>, aussen |-> aussen])

\* erstelleRaum() called by the page
ErstelleRaum(z) ==
    /\ nmVersprechen = <<>>
    /\ erstelleRaumAb(nm, pjPeers, generiereCode(z), 0)
    /\ nmAufruf' = [name |-> "erstelleRaum", offen |-> FALSE, geworfen |-> FALSE, ort |-> <<>>]
    /\ UNCHANGED <<pjConns, pjGesendet, netzFremd>>
    /\ UNCHANGED <<mazeVars, spielVars, stromVars>>

\* peer.on('open') of erstelleRaum: the transport has registered the address
PeerOffenHost(p) ==
    /\ pjPeers[p].art = "host" /\ pjPeers[p].zustand = "neu"
    /\ pjPeers[p].id \notin netzFremd
    /\ pjPeers' = [pjPeers EXCEPT ![p].zustand = "offen"]
    /\ nm' = setzeStatus([nm EXCEPT !.spielerId = pjPeers[p].id], "WARTE AUF SPIELER...", FALSE)
    /\ nmVersprechen' = erledige(nmVersprechen, pjPeers[p].versprechen, "resolved", nm.raumCode)
    /\ UNCHANGED <<nmAufruf, pjConns, pjGesendet, netzFremd>>
    /\ UNCHANGED <<mazeVars, spielVars, stromVars>>

\* peer.on('error') of erstelleRaum with err.type === 'unavailable-id':
\* this.peer.destroy(), this.raumCode = _generiereCode() (from z1), and
\* erstelleRaum() again, which draws its own code (from z2)
PeerUnavailableId(p, z1, z2) ==
    /\ pjPeers[p].art = "host" /\ pjPeers[p].zustand = "neu"
    /\ pjPeers[p].id \in netzFremd
    /\ Len(pjPeers) < MaxPeers
    /\ erstelleRaumAb([nm EXCEPT !.raumCode = generiereCode(z1)],
                      [pjPeers EXCEPT ![nm.peer].zustand = "zerstoert"],
                      generiereCode(z2), pjPeers[p].versprechen)
    /\ UNCHANGED <<nmAufruf, pjConns, pjGesendet, netzFremd>>
    /\ UNCHANGED <<mazeVars, spielVars, stromVars>>

\* peer.on('error') of erstelleRaum with any other err.type
PeerFehlerHost(p, typ) ==
    /\ pjPeers[p].art = "host" /\ pjPeers[p].zustand \in {"neu", "offen"}
    /\ nm' = setzeStatus(nm, "FEHLER: " \o typ, FALSE)
    /\ nmVersprechen' = erledige(nmVersprechen, pjPeers[p].versprechen, "rejected", typ)
    /\ UNCHANGED <<nmAufruf, pjPeers, pjConns, pjGesendet, netzFremd>>
    /\ UNCHANGED <<mazeVars, spielVars, stromVars>>

\* treteRaumBei(code) called by the page: new Peer(undefined)
TreteRaumBei(eingabe) ==
    /\ nmVersprechen = <<>>
    /\ nm' = setzeStatus([nm EXCEPT !.istHost = FALSE, !.raumCode = toUpperCase(eingabe),
                                    !.peer = Len(pjPeers) + 1],
                         "VERBINDE...", FALSE)
    /\ pjPeers' = Append(pjPeers, [id |-> "", ziel |-> peerIdVon(toUpperCase(eingabe)),
                                   art |-> "gast", zustand |-> "neu",
                                   versprechen |-> Len(nmVersprechen) + 1])
    /\ nmVersprechen' = Append(nmVersprechen,
                               [zustand |-> "pending", wert |-> <<>>, aussen |-> 0])
    /\ nmAufruf' = [name |-> "treteRaumBei", offen |-> FALSE, geworfen |-> FALSE, ort |-> <<>>]
    /\ UNCHANGED <<pjConns, pjGesendet, netzFremd>>
    /\ UNCHANGED <<mazeVars, spielVars, stromVars>>

\* peer.on('open') of treteRaumBei: the own id is assigned; peer.connect,
\* _richteVerbindungEin(conn), resolve()
PeerOffenGast(p) ==
    /\ pjPeers[p].art = "gast" /\ pjPeers[p].zustand = "neu"
    /\ Len(pjConns) < MaxConns
    /\ pjPeers' = [pjPeers EXCEPT ![p].zustand = "offen", ![p].id = "gast"]
    /\ pjConns' = Append(pjConns, [ziel |-> pjPeers[p].ziel, zustand |-> "verbindet", fehler |-> FALSE])
    /\ nm' = [nm EXCEPT !.spielerId = "gast", !.verbindung = Len(pjConns) + 1]
    /\ nmVersprechen' = erledige(nmVersprechen, pjPeers[p].versprechen, "resolved", <<>>)
    /\ UNCHANGED <<nmAufruf, pjGesendet, netzFremd>>
    /\ UNCHANGED <<mazeVars, spielVars, stromVars>>

\* peer.on('error') of treteRaumBei with err.type === 'peer-unavailable':
\* nobody listens on the address connection c was opened to
PeerUnavailable(p, c) ==
    /\ pjPeers[p].art = "gast" /\ pjPeers[p].zustand = "offen"
    /\ pjConns[c].zustand = "verbindet" /\ pjConns[c].ziel # ""
    /\ pjConns[c].ziel \notin netzFremd
    /\ pjConns' = [pjConns EXCEPT ![c].zustand = "fehl"]
    /\ nm' = setzeStatus(nm, "RAUM NICHT GEFUNDEN", FALSE)
    /\ nmVersprechen' = erledige(nmVersprechen, pjPeers[p].versprechen, "rejected",
                                 "peer-unavailable")
    /\ UNCHANGED <<nmAufruf, pjPeers, pjGesendet, netzFremd>>
    /\ UNCHANGED <<mazeVars, spielVars, stromVars>>

\* peer.on('error') of treteRaumBei with any other err.type
PeerFehlerGast(p, typ) ==
    /\ pjPeers[p].art = "gast" /\ pjPeers[p].zustand \in {"neu", "offen"}
    /\ nm' = setzeStatus(nm, "FEHLER: " \o typ, FALSE)
    /\ nmVersprechen' = erledige(nmVersprechen, pjPeers[p].versprechen, "rejected", typ)
    /\ UNCHANGED <<nmAufruf, pjPeers, pjConns, pjGesendet, netzFremd>>
    /\ UNCHANGED <<mazeVars, spielVars, stromVars>>

\* peer.on('connection') of erstelleRaum: _richteVerbindungEin(conn)
PeerConnection(p) ==
    /\ pjPeers[p].art = "host" /\ pjPeers[p].zustand = "offen"
    /\ Len(pjConns) < MaxConns
    /\ pjConns' = Append(pjConns, [ziel |-> "", zustand |-> "verbindet", fehler |-> FALSE])
    /\ nm' = [nm EXCEPT !.verbindung = Len(pjConns) + 1]
    /\ UNCHANGED <<nmVersprechen, nmAufruf, pjPeers, pjGesendet, netzFremd>>
    /\ UNCHANGED <<mazeVars, spielVars, stromVars>>

\* conn.on('open'): the channel c is open (an outgoing one only when
\* somebody listens on its address, and not one that has failed before)
VerbindungOffen(c) ==
    /\ pjConns[c].zustand = "verbindet" /\ ~pjConns[c].fehler
    /\ pjConns[c].ziel # "" => pjConns[c].ziel \in netzFremd
    /\ pjConns' = [pjConns EXCEPT ![c].zustand = "offen"]
    /\ nm' = setzeStatus([nm EXCEPT !.verbunden = TRUE], "VERBUNDEN", TRUE)
    /\ UNCHANGED <<nmVersprechen, nmAufruf, pjPeers, pjGesendet, netzFremd>>
    /\ UNCHANGED <<mazeVars, spielVars, stromVars>>

\* conn.on('close')
VerbindungZu(c) ==
    /\ pjConns[c].zustand = "offen"
    /\ pjConns' = [pjConns EXCEPT ![c].zustand = "zu"]
    /\ nm' = setzeStatus([nm EXCEPT !.verbunden = FALSE], "GETRENNT", FALSE)
    /\ UNCHANGED <<nmVersprechen, nmAufruf, pjPeers, pjGesendet, netzFremd>>
    /\ UNCHANGED <<mazeVars, spielVars, stromVars>>

\* conn.on('error')
VerbindungFehler(c) ==
    /\ pjConns[c].zustand \in {"verbindet", "offen"}
    /\ ~pjConns[c].fehler
    /\ pjConns' = [pjConns EXCEPT ![c].fehler = TRUE]
    /\ nm' = setzeStatus(nm, "FEHLER", FALSE)
    /\ UNCHANGED <<nmVersprechen, nmAufruf, pjPeers, pjGesendet, netzFremd>>
    /\ UNCHANGED <<mazeVars, spielVars, stromVars>>

\* the guard of sende: this.verbindung && this.verbindung.open, without
\* the test of open
kanalVorhanden(n, conns) == n.verbindung # 0

\* the guard of sende: this.verbindung && this.verbindung.open
kanalOffen(n, conns) == n.verbindung # 0 /\ conns[n.verbindung].zustand = "offen"

\* the body of sende(typ, daten) on the manager and the sent messages
sendeAuf(typ, daten) ==
    IF ~kanalOffen(nm, pjConns) \/ nm.verbindung = 0
    THEN UNCHANGED <<nm, pjGesendet>>
    ELSE IF pjConns[nm.verbindung].zustand = "offen"
    THEN pjGesendet' = Append(pjGesendet, [typ |-> typ, daten |-> daten]) /\ UNCHANGED nm
    ELSE nm' = setzeStatus(nm, "FEHLER", FALSE) /\ UNCHANGED pjGesendet

\* sende(typ, daten) called by the page or by a timer.  Past the guard,
\* this.verbindung.send throws when this.verbindung is null, transmits on an
\* open channel, and on a channel that is not open PeerJS emits 'error' on
\* the connection, which the handler of conn.on('error') turns into a status
Sende(typ) ==
    /\ kanalOffen(nm, pjConns) => Len(pjGesendet) < MaxNachrichten
    /\ nmAufruf' = [name |-> "sende",
                    offen |-> (nm.verbindung # 0 /\ pjConns[nm.verbindung].zustand = "offen"),
                    geworfen |-> (kanalOffen(nm, pjConns) /\ nm.verbindung = 0),
                    ort |-> <<>>]
    /\ sendeAuf(typ, <<>>)
    /\ UNCHANGED <<nmVersprechen, pjPeers, pjConns, netzFremd>>
    /\ UNCHANGED <<mazeVars, spielVars, stromVars>>

\* position messages sent in all; the avatar's coordinates are counted in
\* 1 / Teile3 of a unit, fine enough for every interpolation to be exact
MaxPositionen == 3
Teile3 == 10 ^ (MaxPositionen - 1)

\* where the players stand when a frame calls sendPlayerPosition: <<x, z>>
\* in thousandths of a unit
Orte == {<<2004, 1996>>, <<5000, 2000>>, <<10000, 2000>>}

\* Math.round(w * 100) / 100 of a coordinate given in thousandths
runde2(w) == ((w + 5) \div 10) * (Teile3 \div 100)

\* this._letztePosition as sendPlayerPosition leaves it for a player at ort
letztePosition(ort) == [x |-> runde2(ort[1]), z |-> runde2(ort[2])]

\* where the player stands when the page calls sendPlayerPosition
NetzOrte == {<<2004, 1996>>, <<5000, 2000>>}

\* startePositionsUpdates() without if (this._positionsTimer) return
startePositionsUpdatesOhneTest(n) ==
    [n EXCEPT !.positionsTimer = TRUE, !.intervalle = @ + 1]

\* startePositionsUpdates() on the manager n: a call with a timer returns at
\* once, any other one creates an interval (intervalle counts the intervals
\* created by setInterval and not cleared)
startePositionsUpdates(n) ==
    IF n.positionsTimer THEN n
    ELSE [n EXCEPT !.positionsTimer = TRUE, !.intervalle = @ + 1]

\* sendPlayerPosition(position, rotation) on the manager n, the player being
\* at ort: returns at once when not verbunden
sendPlayerPosition(n, ort) ==
    IF ~n.verbunden THEN n
    ELSE [n EXCEPT !.letztePosition = <<letztePosition(ort)>>]

StartePositionsUpdates ==
    /\ nm' = startePositionsUpdates(nm)
    /\ nmAufruf' = [name |-> "startePositionsUpdates", offen |-> FALSE,
                    geworfen |-> FALSE, ort |-> <<>>]
    /\ UNCHANGED <<nmVersprechen, pjPeers, pjConns, pjGesendet, netzFremd>>
    /\ UNCHANGED <<mazeVars, spielVars, stromVars>>

SendPlayerPosition(ort) ==
    /\ nm' = sendPlayerPosition(nm, ort)
    /\ nmAufruf' = [name |-> "sendPlayerPosition", offen |-> FALSE,
                    geworfen |-> FALSE, ort |-> ort]
    /\ UNCHANGED <<nmVersprechen, pjPeers, pjConns, pjGesendet, netzFremd>>
    /\ UNCHANGED <<mazeVars, spielVars, stromVars>>

\* the callback of this._positionsTimer = setInterval(..., POSITIONS_INTERVALL):
\* if (this._letztePosition && this.verbunden) this.sende('position', ...)
PositionsTick ==
    /\ nm.intervalle > 0
    /\ (nm.letztePosition # <<>> /\ nm.verbunden /\ kanalOffen(nm, pjConns))
           => Len(pjGesendet) < MaxNachrichten
    /\ IF nm.letztePosition # <<>> /\ nm.verbunden
       THEN sendeAuf("position", nm.letztePosition[1])
       ELSE UNCHANGED <<nm, pjGesendet>>
    /\ nmAufruf' = [name |-> "positionsTimer",
                    offen |-> (nm.verbindung # 0 /\ pjConns[nm.verbindung].zustand = "offen"),
                    geworfen |-> FALSE, ort |-> <<>>]
    /\ UNCHANGED <<nmVersprechen, pjPeers, pjConns, netzFremd>>
    /\ UNCHANGED <<mazeVars, spielVars, stromVars>>

\* disconnect(): clearInterval, verbindung.close() (whose 'close' event runs
\* the handler of conn.on('close')), peer.destroy(), verbunden = false and
\* the status OFFLINE
Disconnect ==
    /\ nm' = setzeStatus([nm EXCEPT !.positionsTimer = FALSE,
                                    !.intervalle = IF nm.positionsTimer THEN @ - 1 ELSE @,
                                    !.verbunden = FALSE],
                         "OFFLINE", FALSE)
    /\ pjConns' = IF nm.verbindung = 0 THEN pjConns
                  ELSE [pjConns EXCEPT ![nm.verbindung].zustand = "zu"]
    /\ pjPeers' = IF nm.peer = 0 THEN pjPeers
                  ELSE [pjPeers EXCEPT ![nm.peer].zustand = "zerstoert"]
    /\ nmAufruf' = [name |-> "disconnect", offen |-> FALSE, geworfen |-> FALSE, ort |-> <<>>]
    /\ UNCHANGED <<nmVersprechen, pjGesendet, netzFremd>>
    /\ UNCHANGED <<mazeVars, spielVars, stromVars>>

NextNet ==
    \/ \E z \in ZufallsFolgen : ErstelleRaum(z)
    \/ \E p \in DOMAIN pjPeers : PeerOffenHost(p)
    \/ \E p \in DOMAIN pjPeers, z1 \in ZufallsFolgen, z2 \in ZufallsFolgen :
           PeerUnavailableId(p, z1, z2)
    \/ \E p \in DOMAIN pjPeers, typ \in FehlerTypen : PeerFehlerHost(p, typ)
    \/ \E eingabe \in EingabeCodes : TreteRaumBei(eingabe)
    \/ \E p \in DOMAIN pjPeers : PeerOffenGast(p)
    \/ \E p \in DOMAIN pjPeers, c \in DOMAIN pjConns : PeerUnavailable(p, c)
    \/ \E p \in DOMAIN pjPeers, typ \in FehlerTypen : PeerFehlerGast(p, typ)
    \/ \E p \in DOMAIN pjPeers : PeerConnection(p)
    \/ \E c \in DOMAIN pjConns : VerbindungOffen(c)
    \/ \E c \in DOMAIN pjConns : VerbindungZu(c)
    \/ \E c \in DOMAIN pjConns : VerbindungFehler(c)
    \/ \E typ \in NachrichtenTypen : Sende(typ)
    \/ StartePositionsUpdates
    \/ \E ort \in NetzOrte : SendPlayerPosition(ort)
    \/ PositionsTick
    \/ Disconnect

(***************************************************************************)
(* Two peers playing rounds (main.js).  The transport delivers the         *)
(* messages of a channel in the order they were sent.                      *)
(***************************************************************************)
Gegner(p) == IF p = "host" THEN "gast" ELSE "host"

\* let countdown = 4 of zeigeErgebnis
countdown == 4

\* caps: round ends a peer records, messages under way to one peer
MaxPunkte == 1
MaxImFlug == 2

\* the pickups a player walks to in the model, and what wendePickupEffektAn
\* answers there for each type (it depends on ammunition, health and mines
\* of the player)
SammelIds == {"pickup_init_7"}
PickupTypen == {"AMMO", "HEALTH", "MINE"}
Annahmen == {[t \in PickupTypen |-> TRUE], [t \in PickupTypen |-> t # "MINE"]}

\* { typ, daten } as verbindung.send is given it
nachricht(typ, seed, id) == [typ |-> typ, daten |-> [seed |-> seed, id |-> id]]

\* netzwerk.sende(typ, daten) of peer p on the channels k
sendeAn(k, n, p, typ, seed, id) ==
    IF n[p].verbunden THEN [k EXCEPT ![Gegner(p)] = Append(@, nachricht(typ, seed, id))]
    ELSE k

\* pickups.findIndex(p => p.id === id)
findIndex(pickups, id) ==
    IF \E i \in DOMAIN pickups : pickups[i].id = id
    THEN (CHOOSE i \in DOMAIN pickups :
              pickups[i].id = id /\ \A j \in 1..(i - 1) : pickups[j].id # id) - 1
    ELSE -1

\* pickups.splice(start, 1): a negative start counts from the end
splice(pickups, start) ==
    IF start < 0 /\ Len(pickups) + start < 0 THEN SubSeq(pickups, 2, Len(pickups))
    ELSE IF start < 0
    THEN SubSeq(pickups, 1, Len(pickups) + start)
         \o SubSeq(pickups, Len(pickups) + start + 2, Len(pickups))
    ELSE SubSeq(pickups, 1, start) \o SubSeq(pickups, start + 2, Len(pickups))

\* entfernePickup without the test idx !== -1
entfernePickupOhnePruefung(pickups, id) == splice(pickups, findIndex(pickups, id))

\* entfernePickup(id)
entfernePickup(pickups, id) ==
    IF findIndex(pickups, id) # -1 THEN splice(pickups, findIndex(pickups, id))
    ELSE pickups

\* pickups.find(p => p.id === pickupId) is a pickup, and it is a mine
istMine(pickups, pickupId) ==
    findIndex(pickups, pickupId) # -1 /\ pickups[findIndex(pickups, pickupId) + 1].typ = "MINE"

\* netzwerk.onPickupCollected(pickupId) on the globals s of a peer
onPickupCollected(s, pickupId) ==
    [s EXCEPT !.gegnerMinenInventar = IF istMine(s.pickups, pickupId) THEN @ + 1 ELSE @,
              !.pickups = entfernePickup(s.pickups, pickupId)]

\* the loop of updatePickups from index i down, the player standing at ort:
\* S.pickups is the list, S.gesendet the ids given to netzwerk.sende
RECURSIVE updatePickupsAb(_, _, _, _)
updatePickupsAb(S, i, ort, annahme) ==
    IF i < 0 THEN S
    ELSE IF S.pickups[i + 1].pos = ort /\ annahme[S.pickups[i + 1].typ]
    THEN updatePickupsAb([pickups |-> entfernePickup(S.pickups, S.pickups[i + 1].id),
                          gesendet |-> Append(S.gesendet, S.pickups[i + 1].id)],
                         i - 1, ort, annahme)
    ELSE updatePickupsAb(S, i - 1, ort, annahme)

\* netzwerk.sende('pickup_collected', { id }) for the ids, in order
RECURSIVE sendeAlle(_, _, _, _)
sendeAlle(k, n, p, ids) ==
    IF ids = <<>> THEN k
    ELSE sendeAlle(sendeAn(k, n, p, "pickup_collected", 0, Head(ids)), n, p, Tail(ids))

\* const startShift = seed % 1000, const hostIndex = startShift
startShift(seed) == seed % 1000
hostIndex(seed) == startShift(seed)

\* const guestIndex without the offset
guestIndexOhneVersatz(seed) == startShift(seed)

\* const guestIndex = startShift + Math.floor(LABYRINTH_BREITE * LABYRINTH_HOEHE * 0.4)
guestIndex(seed) == startShift(seed) + (LABYRINTH_BREITE * LABYRINTH_HOEHE * 4) \div 10

\* const spawnPos = findeFreiePosition(labyrinth, spawnIndex)
spawnPos(labyrinth, seed, istHost) ==
    findeFreiePosition(labyrinth,
                       IF istHost THEN hostIndex(seed) ELSE guestIndex(seed), 0)

\* starteSpielMitSeed(seed, istHost) on the globals s, the grid being what
\* generateMaze returned; spawnPos is where the camera is set
starteSpielAuf(s, seed, labyrinth, istHost, zufall) ==
    [s EXCEPT !.spielSeed = seed, !.labyrinth = labyrinth,
              !.pickups = spawnInitialPickups(<<>>, labyrinth, seed, zufall),
              !.spawnPos = spawnPos(labyrinth, seed, istHost),
              !.spielGestartet = TRUE]

\* starteSpielMitSeed(seed, istHost): generateMaze sets _seedState itself
starteSpielMitSeed(s, seed, istHost, zufall) ==
    starteSpielAuf(s, seed,
                   generateMaze(WordOf(0), LABYRINTH_BREITE, LABYRINTH_HOEHE, seed).lab,
                   istHost, zufall)

\* erstelleGegnerMesh(): the avatar at (0, 0, 0), invisible
erstelleGegnerMesh == [vorhanden |-> TRUE, visible |-> FALSE, position |-> <<0, 0>>]

\* starteNeueRunde(): if (gegnerMesh) { position.set(0, 0, 0); visible = false }
versteckeGegner(g) ==
    IF g.vorhanden THEN [g EXCEPT !.visible = FALSE, !.position = <<0, 0>>] ELSE g

\* zeigeErgebnis that starts no countdown
zeigeErgebnisOhneCountdown(s, titel) ==
    [s EXCEPT !.rundeAktiv = FALSE,
              !.eigenePunkte = IF titel = "SIEG" THEN @ + 1 ELSE @,
              !.gegnerPunkte = IF titel = "SIEG" THEN @ ELSE @ + 1]

\* zeigeErgebnis(titel, nachricht): intervalle counts the intervals that are
\* set and not cleared, neustartTimer is the countdown of the interval the
\* global refers to (0 for null)
zeigeErgebnis(s, titel) ==
    [s EXCEPT !.rundeAktiv = FALSE,
              !.eigenePunkte = IF titel = "SIEG" THEN @ + 1 ELSE @,
              !.gegnerPunkte = IF titel = "SIEG" THEN @ ELSE @ + 1,
              !.intervalle = (IF s.neustartTimer > 0 THEN @ - 1 ELSE @) + 1,
              !.neustartTimer = countdown]

\* stoppeNeustartTimer that forgets the interval without clearing it
stoppeNeustartTimerOhneClear(s) == [s EXCEPT !.neustartTimer = 0]

\* stoppeNeustartTimer()
stoppeNeustartTimer(s) ==
    [s EXCEPT !.intervalle = IF s.neustartTimer > 0 THEN @ - 1 ELSE @,
              !.neustartTimer = 0]

\* starteNeueRunde in which the guest draws a seed as the host does
rundenSeedGezogen(s, n, neuerSeed) == neuerSeed

\* the seed starteNeueRunde builds the round from: the host draws one
\* (neuerSeed), the guest takes spielSeed as it is
rundenSeed(s, n, neuerSeed) == IF n.istHost THEN neuerSeed ELSE s.spielSeed

\* starteNeueRunde() of peer p, its globals being s and the channels k
starteNeueRunde(p, s, k, neuerSeed, zufall) ==
    /\ spiel' = [spiel EXCEPT ![p] =
                    starteSpielMitSeed([stoppeNeustartTimer(s) EXCEPT
                                            !.pickups = <<>>, !.leben = MAX_LEBEN,
                                            !.rundeAktiv = TRUE],
                                       rundenSeed(s, netzwerk[p], neuerSeed),
                                       netzwerk[p].istHost, zufall)]
    /\ kanal' = IF netzwerk[p].istHost
                THEN sendeAn(k, netzwerk, p, "seed", neuerSeed, "")
                ELSE k
    /\ spStart' = [spStart EXCEPT ![p] = <<[seed |-> spiel'[p].spielSeed,
                                            pickups |-> spiel'[p].pickups]>>]
    /\ gegnerMesh' = [gegnerMesh EXCEPT ![p] = versteckeGegner(@)]

\* what a handler leaves in spAufruf
aufruf(p, name, id, gefunden, baut) ==
    [peer |-> p, name |-> name, id |-> id, gefunden |-> gefunden, baut |-> baut,
     geworfen |-> FALSE]

\* richteNetzwerkCallbacks() that leaves netzwerk.onSeedEmpfangen as it is
richteNetzwerkCallbacksOhneSeed(n) == [n EXCEPT !.rueckrufe = TRUE]

\* richteNetzwerkCallbacks() on the netzwerk object n: the handlers of the
\* round are registered, the last one as netzwerk.onSeedEmpfangen
richteNetzwerkCallbacks(n) == [n EXCEPT !.rueckrufe = TRUE, !.onSeedEmpfangen = "runde"]

\* the click on "Raum erstellen", once erstelleRaum has resolved:
\* spielSeed = generiereZufallsSeed(), netzwerk.onSpielerVerbunden = ...
RaumErstellt(seed) ==
    /\ ~netzwerk["host"].istHost
    /\ netzwerk' = [netzwerk EXCEPT !["host"].istHost = TRUE,
                                    !["host"].onSpielerVerbunden = TRUE]
    /\ spiel' = [spiel EXCEPT !["host"].spielSeed = seed]
    /\ spAufruf' = aufruf("host", "erstellenButton", "", FALSE, FALSE)
    /\ UNCHANGED <<kanal, spStart, spRennen>>
    /\ UNCHANGED <<mazeVars, netVars, stromVars>>

\* the click on "Beitreten": netzwerk.onSeedEmpfangen = ... (the handler of
\* the lobby), treteRaumBei(code) with the code of the host's room
Beitreten ==
    /\ netzwerk["host"].istHost
    /\ ~netzwerk["gast"].beigetreten
    /\ netzwerk' = [netzwerk EXCEPT !["gast"].beigetreten = TRUE,
                                    !["gast"].onSeedEmpfangen = "lobby"]
    /\ spAufruf' = aufruf("gast", "beitretenButton", "", FALSE, FALSE)
    /\ UNCHANGED <<spiel, kanal, spStart, spRennen>>
    /\ UNCHANGED <<mazeVars, netVars, stromVars>>

\* conn.on('open') on the host: onSpielerVerbunden sends the seed, runs
\* richteNetzwerkCallbacks and sets the timeout of 500 ms
VerbundenHost ==
    /\ netzwerk["gast"].beigetreten
    /\ ~netzwerk["host"].verbunden
    /\ netzwerk["host"].onSpielerVerbunden
    /\ netzwerk' = [netzwerk EXCEPT
                       !["host"] = [richteNetzwerkCallbacks([@ EXCEPT !.verbunden = TRUE])
                                        EXCEPT !.startTimer = <<spiel["host"].spielSeed>>]]
    /\ kanal' = sendeAn(kanal, netzwerk', "host", "seed", spiel["host"].spielSeed, "")
    /\ gegnerMesh' = [gegnerMesh EXCEPT !["host"] = erstelleGegnerMesh]
    /\ spAufruf' = aufruf("host", "onSpielerVerbunden", "", FALSE, FALSE)
    /\ UNCHANGED <<spiel, spStart, spRennen>>
    /\ UNCHANGED <<mazeVars, netVars, aktiveMinen, minenSchaden, stromZahl>>

\* conn.on('open') on the guest, which has no onSpielerVerbunden
VerbundenGast ==
    /\ netzwerk["gast"].beigetreten
    /\ ~netzwerk["gast"].verbunden
    /\ netzwerk' = [netzwerk EXCEPT !["gast"].verbunden = TRUE]
    /\ spAufruf' = aufruf("gast", "conn.open", "", FALSE, FALSE)
    /\ UNCHANGED <<spiel, kanal, spStart, spRennen>>
    /\ UNCHANGED <<mazeVars, netVars, stromVars>>

\* the timeout that starts the first round: on the host
\* starteSpielMitSeed(spielSeed, true) and sende('start'), on the guest
\* starteSpielMitSeed(seed, false) with the seed its handler was given
StartTimer(p, zufall) ==
    /\ netzwerk[p].startTimer # <<>>
    /\ Len(kanal[Gegner(p)]) < MaxImFlug
    /\ spiel' = [spiel EXCEPT ![p] =
                    starteSpielMitSeed(spiel[p],
                                       IF netzwerk[p].istHost THEN spiel[p].spielSeed
                                       ELSE netzwerk[p].startTimer[1],
                                       netzwerk[p].istHost, zufall)]
    /\ netzwerk' = [netzwerk EXCEPT ![p].startTimer = <<>>]
    /\ kanal' = IF netzwerk[p].istHost THEN sendeAn(kanal, netzwerk, p, "start", 0, "")
                ELSE kanal
    /\ spStart' = [spStart EXCEPT ![p] = <<[seed |-> spiel'[p].spielSeed,
                                            pickups |-> spiel'[p].pickups]>>]
    /\ spAufruf' = aufruf(p, "setTimeout", "", FALSE, TRUE)
    /\ UNCHANGED spRennen
    /\ UNCHANGED <<mazeVars, netVars, stromVars>>

\* conn.on('data') with a seed message: case 'seed' of _verarbeiteNachricht
\* and the handler the page has registered as onSeedEmpfangen.  The seed of
\* a restart is sent no earlier than the countdown of 4 s after a round of
\* the host, so the timeout of 300 ms of the guest has fired when it arrives
EmpfangeSeed(p, neuerSeed, zufall) ==
    /\ netzwerk[p].verbunden
    /\ kanal[p] # <<>> /\ Head(kanal[p]).typ = "seed"
    /\ netzwerk[p].onSeedEmpfangen = "runde" => netzwerk[p].startTimer = <<>>
    /\ Len(kanal[Gegner(p)]) < MaxImFlug
    /\ spAufruf' = aufruf(p, "onSeedEmpfangen", "", spiel[p].neustartTimer > 0,
                          netzwerk[p].onSeedEmpfangen = "runde")
    /\ UNCHANGED spRennen
    /\ UNCHANGED <<mazeVars, netVars, aktiveMinen, minenSchaden, stromZahl>>
    /\ CASE netzwerk[p].onSeedEmpfangen = "lobby" ->
              /\ spiel' = [spiel EXCEPT ![p].spielSeed = Head(kanal[p]).daten.seed]
              /\ netzwerk' = [netzwerk EXCEPT
                                 ![p] = [richteNetzwerkCallbacks(@) EXCEPT
                                             !.startTimer = <<Head(kanal[p]).daten.seed>>]]
              /\ kanal' = [kanal EXCEPT ![p] = Tail(@)]
              /\ gegnerMesh' = [gegnerMesh EXCEPT ![p] = erstelleGegnerMesh]
              /\ UNCHANGED spStart
         [] netzwerk[p].onSeedEmpfangen = "runde" ->
              /\ starteNeueRunde(p,
                                 [stoppeNeustartTimer(spiel[p]) EXCEPT
                                      !.spielSeed = Head(kanal[p]).daten.seed],
                                 [kanal EXCEPT ![p] = Tail(@)], neuerSeed, zufall)
              /\ UNCHANGED netzwerk
         [] OTHER ->
              /\ kanal' = [kanal EXCEPT ![p] = Tail(@)]
              /\ UNCHANGED <<spiel, netzwerk, spStart, gegnerMesh>>

\* conn.on('data') with a start message: case 'start' only logs
EmpfangeStart(p) ==
    /\ netzwerk[p].verbunden
    /\ kanal[p] # <<>> /\ Head(kanal[p]).typ = "start"
    /\ kanal' = [kanal EXCEPT ![p] = Tail(@)]
    /\ spAufruf' = aufruf(p, "start", "", FALSE, FALSE)
    /\ UNCHANGED <<spiel, netzwerk, spStart, spRennen>>
    /\ UNCHANGED <<mazeVars, netVars, stromVars>>

\* conn.on('data') with a besiegt message: onBesiegtEmpfangen, if
\* richteNetzwerkCallbacks has run, calls zeigeErgebnis('SIEG', ...)
EmpfangeBesiegt(p) ==
    /\ netzwerk[p].verbunden
    /\ kanal[p] # <<>> /\ Head(kanal[p]).typ = "besiegt"
    /\ netzwerk[p].rueckrufe => spiel[p].eigenePunkte + spiel[p].gegnerPunkte < MaxPunkte
    /\ kanal' = [kanal EXCEPT ![p] = Tail(@)]
    /\ spiel' = IF netzwerk[p].rueckrufe
                THEN [spiel EXCEPT ![p] = zeigeErgebnis(spiel[p], "SIEG")]
                ELSE spiel
    /\ spAufruf' = aufruf(p, "onBesiegtEmpfangen", "", FALSE, FALSE)
    /\ UNCHANGED <<netzwerk, spStart, spRennen>>
    /\ UNCHANGED <<mazeVars, netVars, stromVars>>

\* conn.on('data') with a pickup_collected message: onPickupCollected, if
\* richteNetzwerkCallbacks has run
EmpfangePickupCollected(p) ==
    /\ netzwerk[p].verbunden
    /\ kanal[p] # <<>> /\ Head(kanal[p]).typ = "pickup_collected"
    /\ kanal' = [kanal EXCEPT ![p] = Tail(@)]
    /\ spiel' = IF netzwerk[p].rueckrufe
                THEN [spiel EXCEPT ![p] = onPickupCollected(spiel[p], Head(kanal[p]).daten.id)]
                ELSE spiel
    /\ spAufruf' = aufruf(p, "onPickupCollected", Head(kanal[p]).daten.id,
                          findIndex(spiel[p].pickups, Head(kanal[p]).daten.id) # -1, FALSE)
    /\ spRennen' = IF spRennen # <<>> /\ spRennen[1].id = Head(kanal[p]).daten.id
                   THEN <<[id |-> spRennen[1].id, offen |-> spRennen[1].offen \ {p}]>>
                   ELSE spRennen
    /\ UNCHANGED <<netzwerk, spStart>>
    /\ UNCHANGED <<mazeVars, netVars, stromVars>>

\* the ids among ids whose pickup_collected is under way to peer p
Ueberholt(p, ids) ==
    {ids[i] : i \in {j \in DOMAIN ids :
        \E m \in DOMAIN kanal[p] :
            kanal[p][m].typ = "pickup_collected" /\ kanal[p][m].daten.id = ids[j]}}

\* what a frame of peer p leaves: U is what updatePickups returned
nachFrame(p, U) ==
    /\ U.gesendet # <<>>
    /\ Len(kanal[Gegner(p)]) + Len(U.gesendet) <= MaxImFlug
    /\ spiel' = [spiel EXCEPT ![p].pickups = U.pickups]
    /\ kanal' = sendeAlle(kanal, netzwerk, p, U.gesendet)
    /\ spAufruf' = aufruf(p, "updatePickups", U.gesendet[1], TRUE, FALSE)
    /\ spRennen' = IF spRennen = <<>> /\ Ueberholt(p, U.gesendet) # {}
                   THEN <<[id |-> CHOOSE id \in Ueberholt(p, U.gesendet) : TRUE,
                           offen |-> Peers]>>
                   ELSE spRennen

\* a frame of the game loop in which the player stands where the pickup id
\* lies: updatePickups()
GameLoop(p, id, annahme) ==
    /\ spiel[p].spielGestartet /\ spiel[p].rundeAktiv
    /\ findIndex(spiel[p].pickups, id) # -1
    /\ nachFrame(p, updatePickupsAb([pickups |-> spiel[p].pickups, gesendet |-> <<>>],
                                    Len(spiel[p].pickups) - 1,
                                    spiel[p].pickups[findIndex(spiel[p].pickups, id) + 1].pos,
                                    annahme))
    /\ UNCHANGED <<netzwerk, spStart>>
    /\ UNCHANGED <<mazeVars, netVars, stromVars>>

\* the callback given to setOnTodCallback, called by empfangeSchaden when
\* the health of the player reaches 0 in a round: sende('besiegt'),
\* zeigeErgebnis('NIEDERLAGE')
Tod(p) ==
    /\ netzwerk[p].rueckrufe
    /\ spiel[p].spielGestartet /\ spiel[p].rundeAktiv
    /\ spiel[p].eigenePunkte + spiel[p].gegnerPunkte < MaxPunkte
    /\ Len(kanal[Gegner(p)]) < MaxImFlug
    /\ kanal' = sendeAn(kanal, netzwerk, p, "besiegt", 0, "")
    /\ spiel' = [spiel EXCEPT ![p] = zeigeErgebnis([spiel[p] EXCEPT !.leben = 0],
                                                  "NIEDERLAGE")]
    /\ spAufruf' = aufruf(p, "onTod", "", FALSE, FALSE)
    /\ UNCHANGED <<netzwerk, spStart, spRennen>>
    /\ UNCHANGED <<mazeVars, netVars, stromVars>>

\* the callback of neustartTimer = setInterval(..., 1000): countdown--, and
\* at 0 stoppeNeustartTimer() and starteNeueRunde()
NeustartTick(p, neuerSeed, zufall) ==
    /\ spiel[p].neustartTimer > 0
    /\ Len(kanal[Gegner(p)]) < MaxImFlug
    /\ spAufruf' = aufruf(p, "neustartTimer", "", FALSE, spiel[p].neustartTimer - 1 <= 0)
    /\ IF spiel[p].neustartTimer - 1 <= 0
       THEN starteNeueRunde(p, stoppeNeustartTimer(spiel[p]), kanal, neuerSeed, zufall)
       ELSE /\ spiel' = [spiel EXCEPT ![p].neustartTimer = @ - 1]
            /\ UNCHANGED <<kanal, spStart, gegnerMesh>>
    /\ UNCHANGED <<netzwerk, spRennen>>
    /\ UNCHANGED <<mazeVars, netVars, aktiveMinen, minenSchaden, stromZahl>>

Next ==
    \/ \E seed \in SpielSeeds : RaumErstellt(seed)
    \/ Beitreten
    \/ VerbundenHost
    \/ VerbundenGast
    \/ \E p \in Peers, zufall \in MathRandomFolgen : StartTimer(p, zufall)
    \/ \E p \in Peers, neuerSeed \in SpielSeeds, zufall \in MathRandomFolgen :
           EmpfangeSeed(p, neuerSeed, zufall)
    \/ \E p \in Peers : EmpfangeStart(p)
    \/ \E p \in Peers : EmpfangeBesiegt(p)
    \/ \E p \in Peers : EmpfangePickupCollected(p)
    \/ \E p \in Peers, id \in SammelIds, annahme \in Annahmen : GameLoop(p, id, annahme)
    \/ \E p \in Peers : Tod(p)
    \/ \E p \in Peers, neuerSeed \in SpielSeeds, zufall \in MathRandomFolgen :
           NeustartTick(p, neuerSeed, zufall)

(***************************************************************************)
(* The messages of a running round (main.js), looked at one kind at a      *)
(* time on top of the rounds of one seed.                                  *)
(***************************************************************************)
\* the seed and the Math.random() stream of these rounds
StromSeeds == {2147483646}
StromZufall == {[i \in 1..anzahl |-> i - 1]}

\* gegnerMesh.position.distanceTo(zielPos) > 3.0
distanzUeber3(position, ziel) ==
    (ziel[1] - position[1]) * (ziel[1] - position[1])
        + (ziel[2] - position[2]) * (ziel[2] - position[2]) > 9 * Teile3 * Teile3

\* gegnerMesh.position.lerp(zielPos, 0.3)
lerp(position, ziel) ==
    <<position[1] + (3 * (ziel[1] - position[1])) \div 10,
      position[2] + (3 * (ziel[2] - position[2])) \div 10>>

\* the handler of positions with the test distanz > 3.0 alone
onUpdateEnemyPositionNurDistanz(g, daten) ==
    IF ~g.vorhanden THEN g
    ELSE [g EXCEPT !.position = IF distanzUeber3(g.position, <<daten.x, daten.z>>)
                                THEN <<daten.x, daten.z>>
                                ELSE lerp(g.position, <<daten.x, daten.z>>),
                   !.visible = TRUE]

\* the handler given to netzwerk.onUpdateEnemyPosition, on gegnerMesh g
onUpdateEnemyPosition(g, daten) ==
    IF ~g.vorhanden THEN g
    ELSE [g EXCEPT !.position = IF ~g.visible \/ distanzUeber3(g.position, <<daten.x, daten.z>>)
                                THEN <<daten.x, daten.z>>
                                ELSE lerp(g.position, <<daten.x, daten.z>>),
                   !.visible = TRUE]

\* the callback of the interval of startePositionsUpdates on peer p, whose
\* last frame has stored the position of a player standing at ort
PositionsTimer(p, ort) ==
    /\ netzwerk[p].verbunden /\ spiel[p].spielGestartet
    /\ stromZahl.position < MaxPositionen
    /\ Len(kanal[Gegner(p)]) < MaxImFlug
    /\ kanal' = [kanal EXCEPT ![Gegner(p)] =
                    Append(@, [typ |-> "position", daten |-> letztePosition(ort)])]
    /\ stromZahl' = [stromZahl EXCEPT !.position = @ + 1]
    /\ spAufruf' = aufruf(p, "positionsTimer", "", FALSE, FALSE)
    /\ UNCHANGED <<spiel, netzwerk, spStart, spRennen>>
    /\ UNCHANGED <<mazeVars, netVars, gegnerMesh, aktiveMinen, minenSchaden>>

\* conn.on('data') with a position message: case 'position' of
\* _verarbeiteNachricht calls onGegnerUpdate, if it is registered
EmpfangePosition(p) ==
    /\ netzwerk[p].verbunden
    /\ kanal[p] # <<>> /\ Head(kanal[p]).typ = "position"
    /\ kanal' = [kanal EXCEPT ![p] = Tail(@)]
    /\ gegnerMesh' = IF netzwerk[p].rueckrufe
                     THEN [gegnerMesh EXCEPT
                               ![p] = onUpdateEnemyPosition(@, Head(kanal[p]).daten)]
                     ELSE gegnerMesh
    /\ spAufruf' = aufruf(p, "onGegnerUpdate", "", gegnerMesh[p].visible, FALSE)
    /\ UNCHANGED <<spiel, netzwerk, spStart, spRennen>>
    /\ UNCHANGED <<mazeVars, netVars, aktiveMinen, minenSchaden, stromZahl>>

NextPosition ==
    \/ \E seed \in StromSeeds : RaumErstellt(seed)
    \/ Beitreten
    \/ VerbundenHost
    \/ VerbundenGast
    \/ \E p \in Peers, zufall \in StromZufall : StartTimer(p, zufall)
    \/ \E p \in Peers, neuerSeed \in StromSeeds, zufall \in StromZufall :
           EmpfangeSeed(p, neuerSeed, zufall)
    \/ \E p \in Peers : EmpfangeStart(p)
    \/ \E p \in Peers : EmpfangeBesiegt(p)
    \/ \E p \in Peers : Tod(p)
    \/ \E p \in Peers, neuerSeed \in StromSeeds, zufall \in StromZufall :
           NeustartTick(p, neuerSeed, zufall)
    \/ \E p \in Peers, ort \in Orte : PositionsTimer(p, ort)
    \/ \E p \in Peers : EmpfangePosition(p)

\* main.js: the caps of the respawn and its chances (SPAWN_CHANCE_HEALTH is
\* 0.15, counted in hundredths)
MAX_PICKUPS_ON_GROUND == 8
MAX_TOTAL_MINES_ON_MAP == 4
SPAWN_CHANCE_MINE == 1
SPAWN_CHANCE_HEALTH == 15

\* pickups respawned in all, the id Date.now() and Math.random() give one,
\* the outcomes of Math.random() in hundredths, the values of
\* Math.floor(Math.random() * 64), and what getMinen() answers
MaxNeuePickups == 1
NeueIds == {"pickup_1700000000000_7"}
Wuerfe == {0, 50}
RespawnIndizes == {0, LABYRINTH_BREITE * LABYRINTH_HOEHE - 1}
MinenInventare == {0, MAX_TOTAL_MINES_ON_MAP}

\* pickups.filter(p => p.typ === 'MINE').length
minenPickups(pickups) == Cardinality({i \in DOMAIN pickups : pickups[i].typ = "MINE"})

\* the type the respawn chooses: the globals s, aktiveMinen.length,
\* getMinen() and the two outcomes of Math.random()
respawnTyp(s, minenAusgelegt, minenInventar, wurf1, wurf2) ==
    IF /\ wurf1 < 100 * SPAWN_CHANCE_MINE
       /\ minenPickups(s.pickups) + minenInventar + minenAusgelegt + s.gegnerMinenInventar
              < MAX_TOTAL_MINES_ON_MAP
    THEN "MINE"
    ELSE IF wurf2 < SPAWN_CHANCE_HEALTH THEN "HEALTH" ELSE "AMMO"

\* what spawnEinzelnesPickup(typ) leaves when neu is the list with the new
\* pickup: the list, and new_pickup { id, pos, typ } sent by a connected host
nachSpawn(p, neu) ==
    /\ spiel' = [spiel EXCEPT ![p].pickups = neu]
    /\ kanal' = IF netzwerk[p].istHost /\ netzwerk[p].verbunden
                THEN [kanal EXCEPT ![Gegner(p)] =
                         Append(@, [typ |-> "new_pickup",
                                    daten |-> [id |-> neu[Len(neu)].id,
                                               pos |-> neu[Len(neu)].pos,
                                               typ |-> neu[Len(neu)].typ]])]
                ELSE kanal

\* a frame of the game loop of peer p in which RESPAWN_INTERVAL has passed:
\* the host, in an active round with fewer than MAX_PICKUPS_ON_GROUND
\* pickups, calls spawnEinzelnesPickup(typ)
Respawn(p, id, wert, minenInventar, wurf1, wurf2) ==
    /\ netzwerk[p].istHost /\ spiel[p].spielGestartet /\ spiel[p].rundeAktiv
    /\ Len(spiel[p].pickups) < MAX_PICKUPS_ON_GROUND
    /\ stromZahl.pickup < MaxNeuePickups
    /\ Len(kanal[Gegner(p)]) < MaxImFlug
    /\ nachSpawn(p, spawnEinzelnesPickup(spiel[p].pickups, spiel[p].labyrinth,
                                         respawnTyp(spiel[p], Len(aktiveMinen[p]),
                                                    minenInventar, wurf1, wurf2),
                                         wert, id, 0))
    /\ stromZahl' = [stromZahl EXCEPT !.pickup = @ + 1]
    /\ spAufruf' = aufruf(p, "respawn", id, FALSE, FALSE)
    /\ UNCHANGED <<netzwerk, spStart, spRennen>>
    /\ UNCHANGED <<mazeVars, netVars, gegnerMesh, aktiveMinen, minenSchaden>>

\* case 'new_pickup' of _verarbeiteNachricht: what it hands to onNewPickup
verarbeiteNewPickup(daten) == <<daten.id, daten.pos>>

\* spawnNetzwerkPickup(id, pos, typ = 'AMMO')
spawnNetzwerkPickup(pickups, id, pos, typ) ==
    Append(pickups, [id |-> id, typ |-> IF typ = "undefined" THEN "AMMO" ELSE typ,
                     pos |-> pos])

\* netzwerk.onNewPickup = (id, pos, typ) => spawnNetzwerkPickup(id, pos, typ),
\* called with the arguments args
onNewPickup(pickups, args) ==
    spawnNetzwerkPickup(pickups, args[1], args[2],
                        IF Len(args) >= 3 THEN args[3] ELSE "undefined")

\* conn.on('data') with a new_pickup message: onNewPickup, if
\* richteNetzwerkCallbacks has run
EmpfangeNewPickup(p) ==
    /\ netzwerk[p].verbunden
    /\ kanal[p] # <<>> /\ Head(kanal[p]).typ = "new_pickup"
    /\ kanal' = [kanal EXCEPT ![p] = Tail(@)]
    /\ spiel' = IF netzwerk[p].rueckrufe
                THEN [spiel EXCEPT ![p].pickups =
                         onNewPickup(@, verarbeiteNewPickup(Head(kanal[p]).daten))]
                ELSE spiel
    /\ spAufruf' = aufruf(p, "onNewPickup", Head(kanal[p]).daten.id, FALSE, FALSE)
    /\ UNCHANGED <<netzwerk, spStart, spRennen>>
    /\ UNCHANGED <<mazeVars, netVars, stromVars>>

NextPickup ==
    \/ \E seed \in StromSeeds : RaumErstellt(seed)
    \/ Beitreten
    \/ VerbundenHost
    \/ VerbundenGast
    \/ \E p \in Peers, zufall \in StromZufall : StartTimer(p, zufall)
    \/ \E p \in Peers, neuerSeed \in StromSeeds, zufall \in StromZufall :
           EmpfangeSeed(p, neuerSeed, zufall)
    \/ \E p \in Peers : EmpfangeStart(p)
    \/ \E p \in Peers : EmpfangePickupCollected(p)
    \/ \E p \in Peers, id \in SammelIds, annahme \in Annahmen : GameLoop(p, id, annahme)
    \/ \E p \in Peers, id \in NeueIds, wert \in RespawnIndizes,
          minenInventar \in MinenInventare, wurf1 \in Wuerfe, wurf2 \in Wuerfe :
           Respawn(p, id, wert, minenInventar, wurf1, wurf2)
    \/ \E p \in Peers : EmpfangeNewPickup(p)

\* mines a peer places in all, and messages of an unknown type sent in all
MaxMinen == 1
MaxUnbekannt == 1

\* where the mine key drops a mine (the open cell (1, 1) and the corner wall)
\* and where a player stands in a frame: <<x, z>> in 1 / Teile of a unit
AbwurfOrte == {<<2 * Teile, 2 * Teile>>, <<0, 0>>}
SpielerOrte == {<<2 * Teile + 3, 2 * Teile>>, <<6 * Teile, 2 * Teile>>}

\* netzwerk.spielerId of the page of peer p: the id of its Peer at the
\* broker, which no two peers share
spielerId(p) == p

\* `mine_${netzwerk.spielerId}_${Date.now()}`, zeit being Date.now()
mineId(id, zeit) == "mine_" \o id \o "_" \o Ziffern[zeit + 1]

\* platziereMine(id, pos, ownerId), the scene being there
platziereMine(minen, id, pos, ownerId) ==
    Append(minen, [id |-> id, pos |-> pos, ownerId |-> ownerId])

\* entferneMine that removes the mine placed last, whatever the id
entferneMineLetzte(minen, id) ==
    IF minen # <<>> THEN SubSeq(minen, 1, Len(minen) - 1) ELSE minen

\* entferneMine(id, visualEffect)
entferneMine(minen, id) ==
    IF findIndex(minen, id) # -1 THEN splice(minen, findIndex(minen, id))
    ELSE minen

\* the handler given to netzwerk.onMineEvent, on the globals s
onMineEvent(s, typ, daten) ==
    IF typ = "mine_placed"
    THEN [s EXCEPT !.minen = platziereMine(@, daten.id, daten.pos, "gegner"),
                   !.gegnerMinenInventar = IF @ - 1 > 0 THEN @ - 1 ELSE 0]
    ELSE IF typ = "mine_exploded"
    THEN [s EXCEPT !.minen = entferneMine(@, daten.id)]
    ELSE s

\* a frame of the game loop of peer p in which the mine key was pressed with
\* a mine in the inventory (hasMine()), dropPos being ort and Date.now()
\* having advanced since the last mine of p
LegeMine(p, ort) ==
    /\ spiel[p].spielGestartet /\ spiel[p].rundeAktiv
    /\ stromZahl.mine[p] < MaxMinen
    /\ Len(kanal[Gegner(p)]) < MaxImFlug
    /\ ~istWand(spiel[p].labyrinth, ort[1], ort[2])
    /\ aktiveMinen' = [aktiveMinen EXCEPT ![p] =
                          platziereMine(@, mineId(spielerId(p), stromZahl.mine[p]),
                                        ort, spielerId(p))]
    /\ kanal' = IF netzwerk[p].verbunden
                THEN [kanal EXCEPT ![Gegner(p)] =
                         Append(@, [typ |-> "mine_placed",
                                    daten |-> [id |-> mineId(spielerId(p),
                                                             stromZahl.mine[p]),
                                               pos |-> ort]])]
                ELSE kanal
    /\ stromZahl' = [stromZahl EXCEPT !.mine[p] = @ + 1]
    /\ spAufruf' = aufruf(p, "legeMine", mineId(spielerId(p), stromZahl.mine[p]),
                          FALSE, FALSE)
    /\ UNCHANGED <<spiel, netzwerk, spStart, spRennen>>
    /\ UNCHANGED <<mazeVars, netVars, gegnerMesh, minenSchaden>>

\* distSq2D < 0.64 for a player at ort and a mine at pos
imRadius(ort, pos) ==
    100 * ((ort[1] - pos[1]) * (ort[1] - pos[1]) + (ort[2] - pos[2]) * (ort[2] - pos[2]))
        < 64 * Teile * Teile

\* the body of if (distSq2D < 0.64) for the mine id: empfangeSchaden (at
\* health 0 the callback of setOnTodCallback sends besiegt and
\* zeigeErgebnis ends the round), entferneMine, sende('mine_exploded')
nachExplosion(S, id) ==
    [minen |-> entferneMine(S.minen, id),
     schaden |-> S.schaden + 1,
     leben |-> IF S.leben - SCHADEN_MINE > 0 THEN S.leben - SCHADEN_MINE ELSE 0,
     aktiv |-> S.aktiv /\ S.leben - SCHADEN_MINE > 0,
     gesendet |-> S.gesendet
                  \o (IF S.leben - SCHADEN_MINE <= 0 THEN <<nachricht("besiegt", 0, "")>>
                      ELSE <<>>)
                  \o <<[typ |-> "mine_exploded", daten |-> [id |-> id]]>>]

\* the loop over aktiveMinen from index i down, the player standing at ort
RECURSIVE minenSchleife(_, _, _)
minenSchleife(S, i, ort) ==
    IF i < 0 THEN S
    ELSE IF S.aktiv /\ imRadius(ort, S.minen[i + 1].pos)
    THEN minenSchleife(nachExplosion(S, S.minen[i + 1].id), i - 1, ort)
    ELSE minenSchleife(S, i - 1, ort)

\* what the loop leaves on peer p when S is its result
nachMinen(p, S) ==
    /\ ~S.aktiv => spiel[p].eigenePunkte + spiel[p].gegnerPunkte < MaxPunkte
    /\ Len(kanal[Gegner(p)]) + Len(S.gesendet) <= MaxImFlug + 1
    /\ aktiveMinen' = [aktiveMinen EXCEPT ![p] = S.minen]
    /\ minenSchaden' = [minenSchaden EXCEPT ![p] = @ + S.schaden]
    /\ kanal' = IF netzwerk[p].verbunden
                THEN [kanal EXCEPT ![Gegner(p)] = @ \o S.gesendet]
                ELSE kanal
    /\ spiel' = [spiel EXCEPT ![p] = IF S.aktiv THEN [@ EXCEPT !.leben = S.leben]
                                      ELSE zeigeErgebnis([@ EXCEPT !.leben = S.leben],
                                                         "NIEDERLAGE")]

\* a frame of the game loop of peer p, in a round, that finds the player
\* within the radius of a mine
MineLoestAus(p, ort) ==
    /\ spiel[p].spielGestartet /\ spiel[p].rundeAktiv
    /\ \E i \in DOMAIN aktiveMinen[p] : imRadius(ort, aktiveMinen[p][i].pos)
    /\ nachMinen(p, minenSchleife([minen |-> aktiveMinen[p], schaden |-> 0,
                                   leben |-> spiel[p].leben, aktiv |-> TRUE,
                                   gesendet |-> <<>>],
                                  Len(aktiveMinen[p]) - 1, ort))
    /\ spAufruf' = aufruf(p, "mineLoestAus", "", FALSE, FALSE)
    /\ UNCHANGED <<netzwerk, spStart, spRennen>>
    /\ UNCHANGED <<mazeVars, netVars, gegnerMesh, stromZahl>>

\* the types of the mine messages, and what _verarbeiteNachricht hands to
\* the handler registered with onMineEvent
MinenTypen == {"mine_placed", "mine_exploded"}
verarbeiteMine(n) == <<n.typ, n.daten>>

\* what the handler of the mine messages leaves on peer p, called with args
nachMineEvent(p, args) ==
    /\ aktiveMinen' = [aktiveMinen EXCEPT ![p] =
                          onMineEvent([minen |-> @,
                                       gegnerMinenInventar |-> spiel[p].gegnerMinenInventar],
                                      args[1], args[2]).minen]
    /\ spiel' = [spiel EXCEPT ![p].gegnerMinenInventar =
                    onMineEvent([minen |-> aktiveMinen[p], gegnerMinenInventar |-> @],
                                args[1], args[2]).gegnerMinenInventar]

\* conn.on('data') with a mine message: the handler of onMineEvent, if
\* richteNetzwerkCallbacks has run
EmpfangeMine(p) ==
    /\ netzwerk[p].verbunden
    /\ kanal[p] # <<>> /\ Head(kanal[p]).typ \in MinenTypen
    /\ kanal' = [kanal EXCEPT ![p] = Tail(@)]
    /\ IF netzwerk[p].rueckrufe
       THEN nachMineEvent(p, verarbeiteMine(Head(kanal[p])))
       ELSE UNCHANGED <<spiel, aktiveMinen>>
    /\ spAufruf' = aufruf(p, "onMineEvent", Head(kanal[p]).daten.id,
                          findIndex(aktiveMinen[p], Head(kanal[p]).daten.id) # -1, FALSE)
    /\ UNCHANGED <<netzwerk, spStart, spRennen>>
    /\ UNCHANGED <<mazeVars, netVars, gegnerMesh, minenSchaden, stromZahl>>

\* the types the switch of _verarbeiteNachricht has a case for, and types it
\* has none for
BekannteTypen == {"position", "treffer", "seed", "start", "besiegt",
                  "pickup_collected", "new_pickup"} \cup MinenTypen
UnbekannteTypen == {"ping"}

\* netzwerk.sende(typ, {}) of peer p with a type of no case
SendeUnbekannt(p, typ) ==
    /\ netzwerk[p].verbunden
    /\ stromZahl.unbekannt < MaxUnbekannt
    /\ Len(kanal[Gegner(p)]) < MaxImFlug
    /\ kanal' = [kanal EXCEPT ![Gegner(p)] = Append(@, [typ |-> typ, daten |-> [id |-> ""]])]
    /\ stromZahl' = [stromZahl EXCEPT !.unbekannt = @ + 1]
    /\ spAufruf' = aufruf(p, "sende", "", FALSE, FALSE)
    /\ UNCHANGED <<spiel, netzwerk, spStart, spRennen>>
    /\ UNCHANGED <<mazeVars, netVars, gegnerMesh, aktiveMinen, minenSchaden>>

\* a default case that gives the connection up
defaultTrennt(n) == [n EXCEPT !.verbunden = FALSE]

\* default: console.warn(...) on the network manager n
default(n) == n

\* conn.on('data') with a message of a type of no case
EmpfangeUnbekannt(p) ==
    /\ netzwerk[p].verbunden
    /\ kanal[p] # <<>> /\ Head(kanal[p]).typ \notin BekannteTypen
    /\ kanal' = [kanal EXCEPT ![p] = Tail(@)]
    /\ netzwerk' = [netzwerk EXCEPT ![p] = default(@)]
    /\ stromZahl' = [stromZahl EXCEPT !.verworfen[p] = @ + 1]
    /\ spAufruf' = aufruf(p, "console.warn", "", FALSE, FALSE)
    /\ UNCHANGED <<spiel, spStart, spRennen>>
    /\ UNCHANGED <<mazeVars, netVars, gegnerMesh, aktiveMinen, minenSchaden>>

NextMinen ==
    \/ \E seed \in StromSeeds : RaumErstellt(seed)
    \/ Beitreten
    \/ VerbundenHost
    \/ VerbundenGast
    \/ \E p \in Peers, zufall \in StromZufall : StartTimer(p, zufall)
    \/ \E p \in Peers, neuerSeed \in StromSeeds, zufall \in StromZufall :
           EmpfangeSeed(p, neuerSeed, zufall)
    \/ \E p \in Peers : EmpfangeStart(p)
    \/ \E p \in Peers : EmpfangeBesiegt(p)
    \/ \E p \in Peers, neuerSeed \in StromSeeds, zufall \in StromZufall :
           NeustartTick(p, neuerSeed, zufall)
    \/ \E p \in Peers, ort \in AbwurfOrte : LegeMine(p, ort)
    \/ \E p \in Peers, ort \in SpielerOrte : MineLoestAus(p, ort)
    \/ \E p \in Peers : EmpfangeMine(p)
    \/ \E p \in Peers, typ \in UnbekannteTypen : SendeUnbekannt(p, typ)
    \/ \E p \in Peers : EmpfangeUnbekannt(p)

\* treffer messages a peer sends in all, round ends by hits a peer records
\* in all, and the damage a treffer carries
MaxTreffer == 5
MaxNiederlagen == 2
TrefferSchaden == {SCHADEN_KOPF}

\* empfangeSchaden(schaden) up to the test of leben <= 0, on the globals s
empfangeSchaden(s, schaden) ==
    [s EXCEPT !.leben = IF @ - schaden > 0 THEN @ - schaden ELSE 0]

\* a callback of setOnTodCallback that sends nothing
onTodStumm(p, k) == k

\* the callback of setOnTodCallback on the channels k: sende('besiegt', {})
\* (its zeigeErgebnis is in nachSchaden)
onTod(p, k) == sendeAn(k, netzwerk, p, "besiegt", 0, "")

\* what empfangeSchaden leaves on peer p, s being the globals with the new
\* health and k the channels: if (leben <= 0) onTodCallback()
nachSchaden(p, s, k) ==
    /\ spiel' = [spiel EXCEPT ![p] = IF s.leben <= 0 THEN zeigeErgebnis(s, "NIEDERLAGE")
                                      ELSE s]
    /\ kanal' = IF s.leben <= 0 THEN onTod(p, k) ELSE k

\* a frame of the game loop of peer p, in a round, whose shot hits the
\* avatar of the opponent: netzwerk.sendHit(spielerId, schaden, hitType)
SendeTreffer(p, schaden) ==
    /\ spiel[p].spielGestartet /\ spiel[p].rundeAktiv
    /\ gegnerMesh[p].vorhanden
    /\ netzwerk[p].verbunden
    /\ stromZahl.treffer[p] < MaxTreffer
    /\ Len(kanal[Gegner(p)]) < MaxImFlug
    /\ kanal' = [kanal EXCEPT ![Gegner(p)] =
                    Append(@, [typ |-> "treffer", daten |-> [schaden |-> schaden]])]
    /\ stromZahl' = [stromZahl EXCEPT !.treffer[p] = @ + 1]
    /\ spAufruf' = aufruf(p, "sendHit", "", FALSE, FALSE)
    /\ UNCHANGED <<spiel, netzwerk, spStart, spRennen>>
    /\ UNCHANGED <<mazeVars, netVars, gegnerMesh, aktiveMinen, minenSchaden>>

\* conn.on('data') with a treffer message: the handler given to
\* onReceiveHit, if richteNetzwerkCallbacks has run, calls
\* empfangeSchaden(daten.schaden)
EmpfangeTreffer(p) ==
    /\ netzwerk[p].verbunden
    /\ kanal[p] # <<>> /\ Head(kanal[p]).typ = "treffer"
    /\ spiel[p].gegnerPunkte < MaxNiederlagen
    /\ Len(kanal[Gegner(p)]) < MaxImFlug
    /\ IF netzwerk[p].rueckrufe
       THEN nachSchaden(p, empfangeSchaden(spiel[p], Head(kanal[p]).daten.schaden),
                        [kanal EXCEPT ![p] = Tail(@)])
       ELSE /\ kanal' = [kanal EXCEPT ![p] = Tail(@)]
            /\ UNCHANGED spiel
    /\ spAufruf' = aufruf(p, "onTrefferEmpfangen", "", spiel[p].rundeAktiv, FALSE)
    /\ UNCHANGED <<netzwerk, spStart, spRennen>>
    /\ UNCHANGED <<mazeVars, netVars, stromVars>>

NextKampf ==
    \/ \E seed \in StromSeeds : RaumErstellt(seed)
    \/ Beitreten
    \/ VerbundenHost
    \/ VerbundenGast
    \/ \E p \in Peers, zufall \in StromZufall : StartTimer(p, zufall)
    \/ \E p \in Peers, neuerSeed \in StromSeeds, zufall \in StromZufall :
           EmpfangeSeed(p, neuerSeed, zufall)
    \/ \E p \in Peers : EmpfangeStart(p)
    \/ \E p \in Peers : EmpfangeBesiegt(p)
    \/ \E p \in Peers, neuerSeed \in StromSeeds, zufall \in StromZufall :
           NeustartTick(p, neuerSeed, zufall)
    \/ \E p \in Peers, schaden \in TrefferSchaden : SendeTreffer(p, schaden)
    \/ \E p \in Peers : EmpfangeTreffer(p)

\* a defeat of peer p while the defeats of both peers together are fewer than
\* MaxPunkte: every besiegt message then finds its receiver below MaxPunkte,
\* so that no handler waits for a bound of the model
TodRunde(p) ==
    /\ spiel["host"].gegnerPunkte + spiel["gast"].gegnerPunkte < MaxPunkte
    /\ Tod(p)

\* the rounds of one seed with their ends and restarts, the timers and the
\* deliveries of the messages being scheduled fairly: a timeout or an
\* interval that is set fires, and a message that has arrived is handled
NextRunde ==
    \/ \E seed \in StromSeeds : RaumErstellt(seed)
    \/ Beitreten
    \/ VerbundenHost
    \/ VerbundenGast
    \/ \E p \in Peers, zufall \in StromZufall : StartTimer(p, zufall)
    \/ \E p \in Peers, neuerSeed \in StromSeeds, zufall \in StromZufall :
           EmpfangeSeed(p, neuerSeed, zufall)
    \/ \E p \in Peers : EmpfangeStart(p)
    \/ \E p \in Peers : EmpfangeBesiegt(p)
    \/ \E p \in Peers : TodRunde(p)
    \/ \E p \in Peers, neuerSeed \in StromSeeds, zufall \in StromZufall :
           NeustartTick(p, neuerSeed, zufall)

\* what conn.on('open') of the guest waits for: the channel it has asked for
VerbundenGastBereit == netzwerk["gast"].beigetreten /\ ~netzwerk["gast"].verbunden

\* what each of these steps of peer p waits for
StartTimerBereit(p) ==
    netzwerk[p].startTimer # <<>> /\ Len(kanal[Gegner(p)]) < MaxImFlug
EmpfangeSeedBereit(p) ==
    /\ netzwerk[p].verbunden
    /\ kanal[p] # <<>> /\ Head(kanal[p]).typ = "seed"
    /\ netzwerk[p].onSeedEmpfangen = "runde" => netzwerk[p].startTimer = <<>>
    /\ Len(kanal[Gegner(p)]) < MaxImFlug
EmpfangeStartBereit(p) ==
    netzwerk[p].verbunden /\ kanal[p] # <<>> /\ Head(kanal[p]).typ = "start"
EmpfangeBesiegtBereit(p) ==
    /\ netzwerk[p].verbunden
    /\ kanal[p] # <<>> /\ Head(kanal[p]).typ = "besiegt"
    /\ netzwerk[p].rueckrufe => spiel[p].eigenePunkte + spiel[p].gegnerPunkte < MaxPunkte
NeustartTickBereit(p) ==
    spiel[p].neustartTimer > 0 /\ Len(kanal[Gegner(p)]) < MaxImFlug

\* weak fairness of these steps: a step that stays possible is taken (the
\* channel the guest has asked for opens, a timer that is set fires, a
\* message that has arrived is handled)
FairRunde ==
    /\ \/ []<>(~VerbundenGastBereit)
       \/ []<><<VerbundenGast>>_vars
    /\ \A p \in Peers :
        /\ \/ []<>(~StartTimerBereit(p))
           \/ []<><<\E zufall \in StromZufall : StartTimer(p, zufall)>>_vars
        /\ \/ []<>(~EmpfangeSeedBereit(p))
           \/ []<><<\E neuerSeed \in StromSeeds, zufall \in StromZufall :
                        EmpfangeSeed(p, neuerSeed, zufall)>>_vars
        /\ \/ []<>(~EmpfangeStartBereit(p))
           \/ []<><<EmpfangeStart(p)>>_vars
        /\ \/ []<>(~EmpfangeBesiegtBereit(p))
           \/ []<><<EmpfangeBesiegt(p)>>_vars
        /\ \/ []<>(~NeustartTickBereit(p))
           \/ []<><<\E neuerSeed \in StromSeeds, zufall \in StromZufall :
                        NeustartTick(p, neuerSeed, zufall)>>_vars

(***************************************************************************)
(* Specifications                                                          *)
(***************************************************************************)
SpecMaze == Init /\ [][NextMaze]_vars

SpecPosition == Init /\ [][NextPosition]_vars

SpecPickup == Init /\ [][NextPickup]_vars

SpecMinen == Init /\ [][NextMinen]_vars

SpecKampf == Init /\ [][NextKampf]_vars

SpecRunde == Init /\ [][NextRunde]_vars /\ FairRunde

SpecNet == Init /\ [][NextNet]_vars

Spec == Init /\ [][Next]_vars

(***************************************************************************)
(* Properties of the maze module                                           *)
(***************************************************************************)
\* the OPEN cells <<y, x>> of a grid
Offene(lab) ==
    UNION {{<<y, x>> : x \in {c \in DOMAIN lab[y] : lab[y][c] = GANG}} : y \in DOMAIN lab}

\* the orthogonal neighbours of the cells of a set
Nachbarn(zellen) ==
    UNION {{<<z[1] - 1, z[2]>>, <<z[1] + 1, z[2]>>, <<z[1], z[2] - 1>>, <<z[1], z[2] + 1>>} :
           z \in zellen}

\* flood fill: the cells of offen reachable from the cells gesehen, rand
\* being the cells found in the last round
RECURSIVE fuellen(_, _, _)
fuellen(offen, gesehen, rand) ==
    IF rand = {} \/ gesehen = {} THEN gesehen
    ELSE LET neu == (Nachbarn(rand) \cap offen) \ gesehen
         IN  fuellen(offen, gesehen \cup neu, neu)

Erreichbar(lab) == fuellen(Offene(lab), {<<1, 1>>} \cap Offene(lab), {<<1, 1>>})

\* C1: a call generateMaze(breite, hoehe, seed), whatever calls and whatever
\* other draws from the shared RNG came before it, returns the grid (or
\* throws exactly when) the same call returns from the freshly loaded module
C1_Deterministisch ==
    mzLetzter # <<>> =>
        LET c == mzLetzter[1]
            frisch == generateMaze(WordOf(0), c.breite, c.hoehe, c.seed)
        IN  c.fehler = frisch.fehler /\ c.lab = frisch.lab

\* a grid returned by a call made after the shared RNG had been used
C1_Zeuge ==
    /\ mzLetzter # <<>>
    /\ mzLetzter[1].benutzt /\ ~mzLetzter[1].fehler
    /\ mzLetzter[1].breite = MaxBreite /\ mzLetzter[1].hoehe >= 2

\* C2: in a grid returned for breite, hoehe >= 1 every OPEN cell is reachable
\* from grid cell [1][1] through orthogonally adjacent OPEN cells
C2_Zusammenhang ==
    (mzLetzter # <<>> /\ ~mzLetzter[1].fehler
        /\ mzLetzter[1].breite >= 1 /\ mzLetzter[1].hoehe >= 1) =>
            Offene(mzLetzter[1].lab) \subseteq Erreichbar(mzLetzter[1].lab)

\* a returned grid in which the loop-opening pass has opened a wall: it has
\* more OPEN cells than the spanning tree's 2 * breite * hoehe - 1
C2_Zeuge ==
    /\ mzLetzter # <<>> /\ ~mzLetzter[1].fehler
    /\ mzLetzter[1].breite >= 2 /\ mzLetzter[1].hoehe >= 2
    /\ Cardinality(Offene(mzLetzter[1].lab))
           > 2 * mzLetzter[1].breite * mzLetzter[1].hoehe - 1

C13_Total ==
    mzLetzter # <<>> =>
        LET c == mzLetzter[1]
        IN  /\ ~c.fehler
            /\ DOMAIN c.lab = 0..(2 * c.hoehe)
            /\ \A y \in DOMAIN c.lab : DOMAIN c.lab[y] = 0..(2 * c.breite)
            /\ \A y \in DOMAIN c.lab : \A x \in DOMAIN c.lab[y] :
                   (y = 0 \/ y = 2 * c.hoehe \/ x = 0 \/ x = 2 * c.breite)
                       => c.lab[y][x] = WAND

\* C14 as stated: the calls findeFreiePosition(grid, i) and
\* findeFreiePosition(grid, i + k * N) return the same position, for every
\* integer k
C14_Umlauf ==
    (mzAbfrage # <<>> /\ mzAbfrage[1].art = "findeFreiePosition") =>
        mzAbfrage[1].erste = mzAbfrage[1].zweite

\* C14: for i >= 0 and every integer k with i + k * N >= 0 the calls
\* findeFreiePosition(grid, i) and findeFreiePosition(grid, i + k * N) return
\* the same position
C14_UmlaufAbNull ==
    (/\ mzAbfrage # <<>> /\ mzAbfrage[1].art = "findeFreiePosition"
     /\ mzAbfrage[1].index >= 0
     /\ mzAbfrage[1].index + mzAbfrage[1].k * mzAbfrage[1].N >= 0) =>
        mzAbfrage[1].erste = mzAbfrage[1].zweite

\* a second call whose index lies past the last open cell of a grid with
\* several open cells, the first one not asking for open cell 0
C14_Zeuge ==
    /\ mzAbfrage # <<>> /\ mzAbfrage[1].art = "findeFreiePosition"
    /\ mzAbfrage[1].N > MaxIndex /\ mzAbfrage[1].index = 1 /\ mzAbfrage[1].k = MaxVielfache
    /\ mzAbfrage[1].erste = mzAbfrage[1].zweite

\* the grid index a world coordinate is nearest to: the i with
\* i - 1/2 <= welt / WAND_GROESSE < i + 1/2
NaechsterIndex(welt) ==
    CHOOSE i \in -2..(2 * MaxBreite + 2 * MaxHoehe + 4) :
        /\ 2 * welt >= (2 * i - 1) * Teile * WAND_GROESSE
        /\ 2 * welt < (2 * i + 1) * Teile * WAND_GROESSE

\* C15: istWand(grid, x, z) on a grid returned for breite, hoehe is true
\* when the nearest grid index of (x, z) lies outside
\* [0, 2 * breite + 1) x [0, 2 * hoehe + 1), and otherwise is whether the
\* cell at that index is WALL
C15_IstWand ==
    (mzAbfrage # <<>> /\ mzAbfrage[1].art = "istWand") =>
        LET c == mzLetzter[1]
            ix == NaechsterIndex(mzAbfrage[1].weltX)
            iz == NaechsterIndex(mzAbfrage[1].weltZ)
        IN  mzAbfrage[1].ergebnis =
                IF ix < 0 \/ ix >= 2 * c.breite + 1 \/ iz < 0 \/ iz >= 2 * c.hoehe + 1
                THEN TRUE
                ELSE c.lab[iz][ix] = WAND

\* a call with the least coordinates that round up to cell [1][1], which is
\* OPEN, while cell [0][0] is WALL
C15_Zeuge ==
    /\ mzAbfrage # <<>> /\ mzAbfrage[1].art = "istWand"
    /\ mzAbfrage[1].weltX = (Teile * WAND_GROESSE) \div 2
    /\ mzAbfrage[1].weltZ = (Teile * WAND_GROESSE) \div 2
    /\ ~mzAbfrage[1].ergebnis
    /\ mzLetzter[1].breite >= 1

(***************************************************************************)
(* Properties of the NetworkManager                                        *)
(***************************************************************************)
\* the promise treteRaumBei returned, where it has been called
Beitritte == {p \in DOMAIN pjPeers : pjPeers[p].art = "gast"}

\* C8: the promise of treteRaumBei is never resolved when nobody listens on
\* the address of the code, and it is rejected once the transport has
\* reported peer-unavailable
C8_BeitrittOhneLauscher ==
    \A p \in Beitritte :
        /\ nmVersprechen[pjPeers[p].versprechen].zustand = "resolved"
              => pjPeers[p].ziel \in netzFremd
        /\ nm.status.text = "RAUM NICHT GEFUNDEN"
              => nmVersprechen[pjPeers[p].versprechen].zustand = "rejected"

\* the letters of a room code: A-Z without I and O
CodeBuchstaben ==
    {"A", "B", "C", "D", "E", "F", "G", "H", "J", "K", "L", "M",
     "N", "P", "Q", "R", "S", "T", "U", "V", "W", "X", "Y", "Z"}

\* promise k is settled in this step
WirdErledigt(k, zustand) ==
    /\ nmVersprechen'[k].zustand = zustand
    /\ k \in DOMAIN nmVersprechen => nmVersprechen[k].zustand = "pending"

\* C9: a step in which the transport reports unavailable-id (the Peer is
\* destroyed unopened, and not by a call of the page) settles no promise
\* and creates a new Peer; and when a
\* promise of erstelleRaum is resolved with c, c is four letters of A-Z
\* without I and O, a Peer with address 'retrolabyrinth_' + c is open and
\* this.raumCode = c
C9_ErstelleRaum ==
    [][/\ \A p \in DOMAIN pjPeers :
             (/\ pjPeers[p].zustand = "neu" /\ pjPeers'[p].zustand = "zerstoert"
              /\ UNCHANGED nmAufruf)
                 => /\ \A k \in DOMAIN nmVersprechen :
                          nmVersprechen'[k].zustand = nmVersprechen[k].zustand
                    /\ nmVersprechen'[Len(nmVersprechen')].zustand = "pending"
                    /\ Len(pjPeers') = Len(pjPeers) + 1
                    /\ pjPeers'[Len(pjPeers')].zustand = "neu"
       /\ \A k \in DOMAIN nmVersprechen' :
             (nm'.istHost /\ WirdErledigt(k, "resolved"))
                 => /\ Len(nmVersprechen'[k].wert) = CODE_LAENGE
                    /\ \A i \in 1..CODE_LAENGE : nmVersprechen'[k].wert[i] \in CodeBuchstaben
                    /\ nm'.raumCode = nmVersprechen'[k].wert
                    /\ \E p \in DOMAIN pjPeers' :
                          /\ pjPeers'[p].zustand = "offen"
                          /\ pjPeers'[p].id = "retrolabyrinth_" \o Text(nmVersprechen'[k].wert)
      ]_vars

\* the promise of the page's call resolved after two collisions
C9_Zeuge ==
    /\ nm.istHost /\ Len(pjPeers) = 3
    /\ nmVersprechen[1].zustand = "resolved"
    /\ pjPeers[1].zustand = "zerstoert" /\ pjPeers[2].zustand = "zerstoert"

\* C10: a call of sende made when no channel is open leaves the manager,
\* its promises, the Peers, the connections and the sent messages as they
\* are and does not throw; and a message is sent only on an open channel
C10_SendeOhneKanal ==
    [][/\ ((\E typ \in NachrichtenTypen : Sende(typ))
            /\ ~(nm.verbindung # 0 /\ pjConns[nm.verbindung].zustand = "offen"))
              => /\ UNCHANGED <<nm, nmVersprechen, pjPeers, pjConns, pjGesendet, netzFremd>>
                 /\ ~nmAufruf'.geworfen
       /\ pjGesendet' # pjGesendet
              => (nm.verbindung # 0 /\ pjConns[nm.verbindung].zustand = "offen")
      ]_vars

\* sende has been called on a manager that has a connection which is not open
C10_Zeuge ==
    /\ nmAufruf.name = "sende" /\ ~nmAufruf.offen /\ ~nmAufruf.geworfen
    /\ nm.verbindung # 0 /\ pjConns[nm.verbindung].zustand \in {"verbindet", "zu"}
    /\ pjGesendet = <<>>

\* C11: when the 'close' event of an open connection fires, the interval
\* timer of the position updates is not active afterwards
C11_TimerNachClose ==
    [][\A c \in DOMAIN pjConns :
          (pjConns[c].zustand = "offen" /\ pjConns'[c].zustand = "zu")
              => ~nm'.positionsTimer]_vars

\* C12: once the connection of the session has received 'close' or 'error',
\* istVerbunden() is false
C12_EndzustandBleibt ==
    \A c \in DOMAIN pjConns :
        (pjConns[c].zustand = "zu" \/ pjConns[c].fehler) => ~nm.verbunden

(***************************************************************************)
(* Properties of the rounds of two peers                                   *)
(***************************************************************************)
\* a step in which peer p takes the message at the head of its channel,
\* a message of type typ
Zustellung(p, typ) ==
    /\ kanal[p] # <<>> /\ Head(kanal[p]).typ = typ
    /\ kanal'[p] = Tail(kanal[p])

\* C4: once a round has ended on the guest, a step of the guest that builds
\* its maze again or makes its round active again is the receipt of a seed
\* message
C4_NeustartNurDurchSeed ==
    [][(/\ spiel["gast"].spielGestartet /\ ~spiel["gast"].rundeAktiv
        /\ spAufruf'.peer = "gast"
        /\ (spiel'["gast"].rundeAktiv \/ spAufruf'.baut))
       => Zustellung("gast", "seed")]_vars

\* C5: two peers whose last starteSpielMitSeed ran with the same seed were
\* given the same initial pickups: ids, types and positions, in order
C5_GleicheStartPickups ==
    \A p \in Peers, q \in Peers :
        (/\ spStart[p] # <<>> /\ spStart[q] # <<>>
         /\ spStart[p][1].seed = spStart[q][1].seed)
        => spStart[p][1].pickups = spStart[q][1].pickups

\* the pickups of a list without those of one id
ohneId(pickups, id) == SelectSeq(pickups, LAMBDA e : e.id # id)

\* C6: when both peers have collected the same id before the other's
\* pickup_collected arrived, each of the two receipts removes nothing but
\* that id and raises no error, and when the second one has happened the id
\* is in neither list
C6_DoppeltesEinsammeln ==
    [][(spRennen # <<>> /\ spRennen' # <<>> /\ spRennen'[1].offen # spRennen[1].offen)
       => (/\ spiel'[spAufruf'.peer].pickups
                 = ohneId(spiel[spAufruf'.peer].pickups, spRennen[1].id)
           /\ ~spAufruf'.geworfen
           /\ spRennen'[1].offen = {}
                 => \A q \in Peers : findIndex(spiel'[q].pickups, spRennen[1].id) = -1)]_vars

\* the ids of the pickups of a round
PickupIds == {pickupInitId(i) : i \in 0..(anzahl - 1)}

\* C7: the receipt of a pickup_collected whose id is not in the list of the
\* receiver changes neither its globals (pickup list, gegnerMinenInventar,
\* round state) nor anything else but the channel it came from, and raises
\* no error; for every id, handling pickup_collected twice leaves what
\* handling it once leaves
C7_AbwesendOhneWirkung ==
    [][/\ \A p \in Peers :
            (/\ Zustellung(p, "pickup_collected")
             /\ findIndex(spiel[p].pickups, Head(kanal[p]).daten.id) = -1)
            => /\ spiel' = spiel /\ netzwerk' = netzwerk /\ spStart' = spStart
               /\ kanal'[Gegner(p)] = kanal[Gegner(p)]
               /\ ~spAufruf'.geworfen
       /\ \A p \in Peers, id \in PickupIds :
            onPickupCollected(onPickupCollected(spiel[p], id), id)
                = onPickupCollected(spiel[p], id)]_vars

\* C7 (witness): a peer whose handlers are registered and whose list is not
\* empty has just received a pickup_collected for an id it does not have
C7_Zeuge ==
    /\ spAufruf.name = "onPickupCollected" /\ ~spAufruf.gefunden
    /\ netzwerk[spAufruf.peer].rueckrufe
    /\ spiel[spAufruf.peer].pickups # <<>>
    /\ spiel[spAufruf.peer].gegnerMinenInventar > 0


\* C20: netzwerk.onSeedEmpfangen holds one handler, the one registered last:
\* once the handler of the lobby has run on a peer, a seed message delivered
\* to that peer runs the handler of the round only, which stops the countdown
\* and starts the round of the received seed at once; it sets no timeout of
\* a first round and registers nothing
C20_LetzterRueckruf ==
    [][\A p \in Peers :
          (Zustellung(p, "seed") /\ netzwerk[p].rueckrufe)
              => /\ netzwerk' = netzwerk
                 /\ spiel'[p].spielSeed = Head(kanal[p]).daten.seed
                 /\ spiel'[p].neustartTimer = 0
                 /\ spiel'[p].rundeAktiv /\ spiel'[p].spielGestartet
                 /\ spStart'[p] = <<[seed |-> Head(kanal[p]).daten.seed,
                                     pickups |-> spiel'[p].pickups]>>
      ]_vars

\* the guest, whose first seed ran the handler of the lobby, has been
\* delivered a later seed after the end of a round
C20_Zeuge ==
    /\ spAufruf.peer = "gast" /\ spAufruf.name = "onSeedEmpfangen"
    /\ netzwerk["gast"].rueckrufe /\ netzwerk["gast"].startTimer = <<>>
    /\ spiel["gast"].eigenePunkte + spiel["gast"].gegnerPunkte > 0
    /\ spiel["gast"].rundeAktiv


\* C16: a position message delivered to a peer whose avatar is invisible
\* puts the avatar at the received coordinates; the avatar is moved to
\* another place than the received one only when it was visible and at most
\* 3 units away from it, and then by 0.3 of the way; and the step that
\* starts the next round after the end of one leaves the avatar invisible
C16_Sprung ==
    [][\A p \in Peers :
          /\ (Zustellung(p, "position") /\ netzwerk[p].rueckrufe /\ gegnerMesh[p].vorhanden)
                => LET daten == Head(kanal[p]).daten
                       alt == gegnerMesh[p].position
                       neu == gegnerMesh'[p].position
                   IN  /\ gegnerMesh'[p].visible
                       /\ ~gegnerMesh[p].visible => neu = <<daten.x, daten.z>>
                       /\ neu # <<daten.x, daten.z>> =>
                              /\ gegnerMesh[p].visible
                              /\ ~distanzUeber3(alt, <<daten.x, daten.z>>)
                              /\ 10 * (neu[1] - alt[1]) = 3 * (daten.x - alt[1])
                              /\ 10 * (neu[2] - alt[2]) = 3 * (daten.z - alt[2])
          /\ (~spiel[p].rundeAktiv /\ spiel'[p].rundeAktiv) => ~gegnerMesh'[p].visible
      ]_vars

\* after a round was started again, the first position message has put the
\* invisible avatar of a peer at the received place, which is less than 3
\* units from where the avatar is created
C16_Zeuge ==
    /\ spAufruf.name = "onGegnerUpdate" /\ ~spAufruf.gefunden
    /\ spiel[spAufruf.peer].eigenePunkte + spiel[spAufruf.peer].gegnerPunkte > 0
    /\ spiel[spAufruf.peer].rundeAktiv
    /\ gegnerMesh[spAufruf.peer].visible
    /\ gegnerMesh[spAufruf.peer].position = <<2 * Teile3, 2 * Teile3>>


\* C17: the new_pickup message the host sends carries the id, the position
\* and the type of the pickup it has spawned, and the guest to which it is
\* delivered adds one pickup, of that id, position and type
C17_NeuesPickup ==
    [][/\ stromZahl'.pickup > stromZahl.pickup =>
              /\ Len(spiel'["host"].pickups) = Len(spiel["host"].pickups) + 1
              /\ netzwerk["host"].verbunden =>
                     LET neu == spiel'["host"].pickups[Len(spiel'["host"].pickups)]
                     IN  kanal'["gast"] =
                             Append(kanal["gast"],
                                    [typ |-> "new_pickup",
                                     daten |-> [id |-> neu.id, pos |-> neu.pos,
                                                typ |-> neu.typ]])
       /\ (Zustellung("gast", "new_pickup") /\ netzwerk["gast"].rueckrufe) =>
              spiel'["gast"].pickups =
                  Append(spiel["gast"].pickups,
                         [id |-> Head(kanal["gast"]).daten.id,
                          typ |-> Head(kanal["gast"]).daten.typ,
                          pos |-> Head(kanal["gast"]).daten.pos])
      ]_vars

\* the mines of a list other than the one of the id
ohneMine(minen, id) == SelectSeq(minen, LAMBDA m : m.id # id)

seedUnterwegs == \E i \in DOMAIN kanal["gast"] : kanal["gast"][i].typ = "seed"

nachAbzug(leben, schaden) == IF leben - schaden > 0 THEN leben - schaden ELSE 0

\* C24: the delivery of a treffer changes globals of the receiver only, and
\* takes the damage from its health; while health is left nothing else
\* changes and nothing is sent; when the health falls to 0 the receiver's
\* round is no longer active, gegnerPunkte is one more and besiegt is sent;
\* the peer to which besiegt is delivered has its round no longer active and
\* eigenePunkte one more
C24_TrefferUndBesiegt ==
    [][\A p \in Peers :
          /\ Zustellung(p, "treffer") =>
                 /\ spiel'[Gegner(p)] = spiel[Gegner(p)]
                 /\ spiel'[p].leben =
                        nachAbzug(spiel[p].leben, Head(kanal[p]).daten.schaden)
                 /\ spiel'[p].leben > 0 =>
                        /\ spiel'[p] = [spiel[p] EXCEPT !.leben = spiel'[p].leben]
                        /\ kanal'[Gegner(p)] = kanal[Gegner(p)]
                 /\ (spiel[p].leben > 0 /\ spiel'[p].leben = 0) =>
                        /\ ~spiel'[p].rundeAktiv
                        /\ spiel'[p].gegnerPunkte = spiel[p].gegnerPunkte + 1
                        /\ spiel'[p].eigenePunkte = spiel[p].eigenePunkte
                        /\ kanal'[Gegner(p)] =
                               Append(kanal[Gegner(p)], nachricht("besiegt", 0, ""))
          /\ Zustellung(p, "besiegt") =>
                 /\ ~spiel'[p].rundeAktiv
                 /\ spiel'[p].eigenePunkte = spiel[p].eigenePunkte + 1
                 /\ spiel'[p].gegnerPunkte = spiel[p].gegnerPunkte
                 /\ spiel'[Gegner(p)] = spiel[Gegner(p)]
      ]_vars

\* C24: hits have taken the health of a peer to 0, and its besiegt has been
\* delivered to the other peer, which has recorded the win
C24_Zeuge ==
    /\ spAufruf.name = "onBesiegtEmpfangen"
    /\ spiel[spAufruf.peer].eigenePunkte = 1 /\ ~spiel[spAufruf.peer].rundeAktiv
    /\ stromZahl.treffer[spAufruf.peer] > 0
    /\ spiel[Gegner(spAufruf.peer)].leben = 0
    /\ spiel[Gegner(spAufruf.peer)].gegnerPunkte = 1
    /\ ~spiel[Gegner(spAufruf.peer)].rundeAktiv

\* C25: while the round of a peer is ended, the peer records no further
\* round end (eigenePunkte + gegnerPunkte stays) and sends no further
\* besiegt, whatever is delivered to it
C25_EinRundenende ==
    [][\A p \in Peers :
          (spiel[p].spielGestartet /\ ~spiel[p].rundeAktiv /\ ~spiel'[p].rundeAktiv) =>
              /\ spiel'[p].eigenePunkte + spiel'[p].gegnerPunkte
                     = spiel[p].eigenePunkte + spiel[p].gegnerPunkte
              /\ \/ kanal'[Gegner(p)] = kanal[Gegner(p)]
                 \/ kanal'[Gegner(p)] = Tail(kanal[Gegner(p)])
      ]_vars

\* C22: a round of a peer that has ended becomes active again, and the step
\* of the host that makes its round active again builds the round from the
\* seed it has drawn in that step and sends that seed to the guest
C22_RundeBeginntWieder ==
    /\ \A p \in Peers : (~spiel[p].rundeAktiv) ~> spiel[p].rundeAktiv
    /\ [][(~spiel["host"].rundeAktiv /\ spiel'["host"].rundeAktiv) =>
              /\ spStart'["host"] = <<[seed |-> spiel'["host"].spielSeed,
                                       pickups |-> spiel'["host"].pickups]>>
              /\ kanal'["gast"] =
                     Append(kanal["gast"], nachricht("seed", spiel'["host"].spielSeed, ""))
         ]_vars

\* C22: the rounds of both peers have ended and are active again, the
\* guest's through the seed of the host's new round
C22_Zeuge ==
    /\ \A p \in Peers : /\ spiel[p].eigenePunkte + spiel[p].gegnerPunkte > 0
                        /\ spiel[p].rundeAktiv /\ spiel[p].neustartTimer = 0
    /\ spAufruf.name = "onSeedEmpfangen" /\ spAufruf.baut

\* C23: the seed message handled by the restart handler while the countdown
\* is pending clears the interval and builds the round of that seed; the
\* intervals that are set are at most one, the one neustartTimer refers to,
\* so no interval is left to fire once neustartTimer is null; and only a
\* countdown that is set starts a round
C23_CountdownGestoppt ==
    /\ [](\A p \in Peers :
              spiel[p].intervalle = IF spiel[p].neustartTimer > 0 THEN 1 ELSE 0)
    /\ [][\A p \in Peers :
             /\ (/\ Zustellung(p, "seed") /\ netzwerk[p].onSeedEmpfangen = "runde"
                 /\ spiel[p].neustartTimer > 0) =>
                    /\ spiel'[p].neustartTimer = 0 /\ spiel'[p].intervalle = 0
                    /\ spiel'[p].rundeAktiv
                    /\ spStart'[p] = <<[seed |-> Head(kanal[p]).daten.seed,
                                        pickups |-> spiel'[p].pickups]>>
             /\ (spAufruf'.name = "neustartTimer" /\ spAufruf'.peer = p) =>
                    spiel[p].neustartTimer > 0
         ]_vars

\* C23: the guest has handled the seed of the host's new round while its own
\* countdown was pending, and the countdown is gone
C23_Zeuge ==
    /\ spAufruf.name = "onSeedEmpfangen" /\ spAufruf.baut /\ spAufruf.gefunden
    /\ spiel[spAufruf.peer].neustartTimer = 0 /\ spiel[spAufruf.peer].intervalle = 0
    /\ spiel[spAufruf.peer].rundeAktiv

\* the ids of the pickups in a list
idsVon(pickups) == {pickups[i].id : i \in DOMAIN pickups}

\* C26: when both peers are in the same active round after the first, built
\* from the same seed, no message is under way and no timeout or countdown is
\* pending, the ids of the pickups of the two peers are the same
C26_GleichePickupIds ==
    (/\ \A p \in Peers : /\ spiel[p].spielGestartet /\ spiel[p].rundeAktiv
                         /\ kanal[p] = <<>>
                         /\ netzwerk[p].startTimer = <<>> /\ spiel[p].neustartTimer = 0
     /\ spStart["host"] # <<>> /\ spStart["gast"] # <<>>
     /\ spStart["host"][1].seed = spStart["gast"][1].seed
     /\ spiel["host"].eigenePunkte + spiel["host"].gegnerPunkte
            = spiel["gast"].eigenePunkte + spiel["gast"].gegnerPunkte
     /\ spiel["host"].eigenePunkte + spiel["host"].gegnerPunkte > 0) =>
        idsVon(spiel["host"].pickups) = idsVon(spiel["gast"].pickups)

\* C27: when the countdown of a peer ends and starteNeueRunde has run, the
\* list of active mines of that peer is empty, so that no mine of an earlier
\* round is left to explode in the new round
C27_KeineAltenMinen ==
    [][\A p \in Peers :
           (spAufruf'.name = "neustartTimer" /\ spAufruf'.peer = p /\ spAufruf'.baut) =>
               aktiveMinen'[p] = <<>>]_vars

\* C28: sendPlayerPosition leaves exactly the position of its call in the
\* buffer when the session is connected and leaves the manager as it is when
\* not, and sends nothing; there is never more than one interval of the
\* position updates; a tick of the interval sends at most one message, which
\* is a position message with the buffered position, and it sends nothing
\* when no position is buffered or the session is not connected
C28_PositionsStrom ==
    /\ [](nm.intervalle = IF nm.positionsTimer THEN 1 ELSE 0)
    /\ [](Len(nm.letztePosition) <= 1)
    /\ [][/\ (\E ort \in NetzOrte : SendPlayerPosition(ort)) =>
                /\ pjGesendet' = pjGesendet
                /\ IF nm.verbunden
                   THEN nm' = [nm EXCEPT !.letztePosition =
                                             <<letztePosition(nmAufruf'.ort)>>]
                   ELSE nm' = nm
          /\ StartePositionsUpdates => nm'.intervalle = 1 /\ pjGesendet' = pjGesendet
          /\ PositionsTick =>
                /\ Len(pjGesendet') <= Len(pjGesendet) + 1
                /\ nm'.letztePosition = nm.letztePosition
                /\ pjGesendet' # pjGesendet =>
                      /\ nm.letztePosition # <<>> /\ nm.verbunden
                      /\ pjGesendet' = Append(pjGesendet,
                                              [typ |-> "position",
                                               daten |-> nm.letztePosition[1]])
         ]_vars

\* a tick of the one interval has sent the buffered position on the open
\* channel of a connected session
C28_Zeuge ==
    /\ nmAufruf.name = "positionsTimer" /\ nmAufruf.offen
    /\ nm.intervalle = 1 /\ nm.verbunden
    /\ pjGesendet = <<[typ |-> "position", daten |-> letztePosition(<<5000, 2000>>)]>>

\* C29: when the host and the guest have built the world from the same seed,
\* the positions they were spawned at are open cells of the grid (istWand is
\* false at both) and are not the same cell; and on that grid the two
\* positions differ for every value of seed % 1000
C29_SpawnGetrennt ==
    (/\ spStart["host"] # <<>> /\ spStart["gast"] # <<>>
     /\ netzwerk["host"].istHost /\ ~netzwerk["gast"].istHost
     /\ spiel["host"].spielSeed = spiel["gast"].spielSeed
     /\ spStart["host"][1].seed = spiel["host"].spielSeed
     /\ spStart["gast"][1].seed = spiel["gast"].spielSeed) =>
        /\ \A p \in Peers :
              /\ ~istWand(spiel[p].labyrinth, Teile * spiel[p].spawnPos.x,
                          Teile * spiel[p].spawnPos.z)
              /\ spiel[p].labyrinth[spiel[p].spawnPos.z \div WAND_GROESSE]
                                   [spiel[p].spawnPos.x \div WAND_GROESSE] = GANG
        /\ spiel["host"].spawnPos # spiel["gast"].spawnPos
        /\ LET frei == freieVon(spiel["host"].labyrinth)
           IN  \A seed \in 0..999 :
                   auswahl(frei, hostIndex(seed), 0) # auswahl(frei, guestIndex(seed), 0)

\* both peers have built the world from the seed 2147483646, whose startShift
\* is 646, beyond the number of open cells: both indexes wrap around
C29_Zeuge ==
    /\ spStart["host"] # <<>> /\ spStart["gast"] # <<>>
    /\ netzwerk["host"].istHost /\ ~netzwerk["gast"].istHost
    /\ spiel["host"].spielSeed = 2147483646 /\ spiel["gast"].spielSeed = 2147483646
    /\ spStart["host"][1].seed = 2147483646 /\ spStart["gast"][1].seed = 2147483646
    /\ hostIndex(2147483646) >= Len(freieVon(spiel["host"].labyrinth))
    /\ spiel["host"].spawnPos # spiel["gast"].spawnPos

\* _seedState after n calls of seededRandom() made from st
RECURSIVE nachZuegen(_, _)
nachZuegen(st, n) ==
    IF Len(st) = 0 \/ n = 0 THEN st
    ELSE IF n = 1 THEN seededRandom(st).st
    ELSE nachZuegen(nachZuegen(st, n \div 2), n - (n \div 2))

\* the interior cells <<y, x>> of a grid of the maze c
Innere(c) == (1..(2 * c.hoehe - 1)) \X (1..(2 * c.breite - 1))

\* the interior cells that are WALL in the grid alt and come before <<y, x>>
\* in row-major order
WaendeVor(c, alt, y, x) ==
    {z \in Innere(c) : alt[z[1]][z[2]] = WAND /\ (z[1] < y \/ (z[1] = y /\ z[2] < x))}

\* the OPEN neighbours of <<y, x>> at the moment a row-major pass in place
\* visits it: the cells above and to the left as the pass leaves them (neu),
\* the cells below and to the right as the carving left them (alt)
OffenBeimBesuch(alt, neu, y, x) ==
    (IF neu[y - 1][x] = GANG THEN 1 ELSE 0) + (IF neu[y][x - 1] = GANG THEN 1 ELSE 0)
    + (IF alt[y + 1][x] = GANG THEN 1 ELSE 0) + (IF alt[y][x + 1] = GANG THEN 1 ELSE 0)

\* the relation of the returned grid neu of the maze c, left with the RNG
\* state st, to the carving G
DurchbruchPass(c, G, neu, st) ==
    /\ \A y \in 0..(2 * c.hoehe), x \in 0..(2 * c.breite) :
          /\ G.lab[y][x] = GANG => neu[y][x] = GANG
          /\ <<y, x>> \notin Innere(c) => neu[y][x] = G.lab[y][x]
    /\ \A z \in Innere(c) :
          (G.lab[z[1]][z[2]] = WAND /\ neu[z[1]][z[2]] = GANG) =>
              /\ OffenBeimBesuch(G.lab, neu, z[1], z[2]) >= 2
              /\ UnterRate(seededRandom(nachZuegen(G.st,
                     Cardinality(WaendeVor(c, G.lab, z[1], z[2])))).val)
    /\ st = nachZuegen(G.st, Cardinality({z \in Innere(c) : G.lab[z[1]][z[2]] = WAND}))

\* C30: the grid generateMaze returns differs from the grid the depth-first
\* carving left only in interior cells turned from WALL to OPEN; each of them
\* had at least 2 OPEN orthogonal neighbours when a row-major pass in place
\* visited it, and its draw from the RNG, the one numbered by the WALL cells
\* before it, was below the rate; and the RNG has been drawn once for every
\* interior cell that was WALL after the carving, and for no other
C30_Durchbrueche ==
    (mzLetzter # <<>> /\ ~mzLetzter[1].fehler /\ mzZuege = 0) =>
        DurchbruchPass(mzLetzter[1],
                       gegraben(setSeed(WordOf(0), mzLetzter[1].seed),
                                mzLetzter[1].breite, mzLetzter[1].hoehe),
                       mzLetzter[1].lab, seedState)

\* a returned grid in which the pass has opened a wall that had fewer than
\* 2 OPEN neighbours after the carving, and has left another interior cell
\* WALL
C30_Zeuge ==
    /\ mzLetzter # <<>> /\ ~mzLetzter[1].fehler /\ mzZuege = 0
    /\ <<mzLetzter[1].breite, mzLetzter[1].hoehe, mzLetzter[1].seed>> \in DurchbruchAufrufe
    /\ \E z \in Innere(mzLetzter[1]) : mzLetzter[1].lab[z[1]][z[2]] = WAND
    /\ \E z \in Innere(mzLetzter[1]) :
           /\ mzLetzter[1].lab[z[1]][z[2]] = GANG
           /\ gegraben(setSeed(WordOf(0), mzLetzter[1].seed),
                       mzLetzter[1].breite, mzLetzter[1].hoehe).lab[z[1]][z[2]] = WAND
           /\ OffenBeimBesuch(gegraben(setSeed(WordOf(0), mzLetzter[1].seed),
                                       mzLetzter[1].breite, mzLetzter[1].hoehe).lab,
                              gegraben(setSeed(WordOf(0), mzLetzter[1].seed),
                                       mzLetzter[1].breite, mzLetzter[1].hoehe).lab,
                              z[1], z[2]) < 2

=============================================================================
